---- MODULE Spec2Model ----
(***************************************************************************)
(* Room / presence / chat / call-signaling / screen-share / liveness state *)
(* machine of the socket.io server in src/server.js (and its sibling       *)
(* revision src/unnamed/part_000, which adds the periodic cleanup sweep).  *)
(*                                                                         *)
(* Every socket.on(...) handler and every timer callback is one action.    *)
(* The process-wide Maps of the server are the variables of the same name. *)
(* Opaque payload that the server only copies (photos, colours, SDP blobs, *)
(* file contents, room display names) is left out of the records.          *)
(***************************************************************************)
EXTENDS Integers, Sequences, FiniteSets, TLC

\* ------------------------------------------------------------------ bounds
\* Clock steps (of one ping period) taken in the liveness-monitor runs.
MaxHealthTicks == 7

\* Clock steps taken in the room-retention runs.
MaxRoomTicks == 4

\* Clock steps (of one cleanup period) taken in the periodic-sweep runs.
MaxSweepTicks == 7

\* Messages posted per run of the chat specification.
MaxMsgs == 2

\* Messages posted per run of the log-retention specification.
MaxBurst == 102

\* Tracks one participant uploads per run of the playlist specification.
MaxTracks == 2

\* ------------------------------------------------------- program constants
PING_PERIOD == 10000

HEALTH_PERIOD == 20000

HEALTH_TIMEOUT == 40000

GRACE_PERIOD == 600000

CLEANUP_PERIOD == 600000

ONE_HOUR == 3600000

REQUEST_TTL == 300000

MESSAGE_CAP == 100

HISTORY_LEN == 50

\* ------------------------------------------------------------- input sets
Null == "null"

SocketOrder == <<"s1", "s2", "s3">>

Sockets == {SocketOrder[i] : i \in DOMAIN SocketOrder}

Names == {"ann", "bob"}

\* The display name each connection uses in the runs below: two connections
\* share a name, one differs.
NameOf(s) == IF s = "s1" THEN "ann" ELSE "bob"

\* Codes generateRoomCode can return (upper-case base-36 digits).
GenCodes == {"AB12CD", "XY34ZW"}

\* Lower-case spellings a client may type into join-room.
LowerCodes == {"ab12cd", "xy34zw"}

AllCodes == GenCodes \cup LowerCodes

NoPassword == Null

\* A field that a spread of a missing record leaves undefined.
Undefined == 0 - 1

Passwords == {"pw"}

VARIABLES
  conn,                \* socket -> "idle" | "open" | "closed" (socket.connected)
  joined,              \* socket -> set of socket.io rooms it has join()ed
  currentUser,         \* per-connection closure variable
  currentRoomCode,     \* per-connection closure variable
  rooms,               \* Map code -> room
  users,               \* Map socket -> {roomCode, ...user}, in insertion order
  messages,            \* Map code -> array of messages
  activeCalls,         \* Map socket -> callData
  screenShareRequests, \* Map socket -> request
  connectionMonitor,   \* Map socket -> health record
  now,                 \* Date.now()
  pingDue,             \* socket -> next firing of its pingInterval
  healthDue,           \* next firing of the health-check interval
  cleanupDue,          \* next firing of the periodic cleanup interval
  graceTimers,         \* pending setTimeout callbacks of disconnect
  sent,                \* events emitted by the handler that ran last
  lastPong,            \* history: socket -> time of its last acknowledgment
  hist,                \* history: code -> when the room last became empty
  nextId,              \* number of message identities handed out
  userPlaylists,       \* Map code -> Map userName -> number of tracks
  last                 \* history: the handler that ran last, and on what

vars == <<conn, joined, currentUser, currentRoomCode, rooms, users, messages,
          activeCalls, screenShareRequests, connectionMonitor, now, pingDue,
          healthDue, cleanupDue, graceTimers, sent, lastPong, hist, nextId,
          userPlaylists, last>>

\* ---------------------------------------------------------------- helpers
\* Map.set / Map.delete on a Map whose iteration order is never observed.
Put(f, k, v) == [x \in (DOMAIN f) \cup {k} |-> IF x = k THEN v ELSE f[x]]

Del(f, k) == [x \in (DOMAIN f) \ {k} |-> f[x]]

Has(f, k) == k \in DOMAIN f

\* Map.set / Map.delete on a Map kept as its entries in insertion order:
\* setting an existing key keeps its position.
HasId(seq, id) == \E i \in DOMAIN seq : seq[i].id = id

MapSet(seq, rec) ==
  IF HasId(seq, rec.id)
  THEN [i \in DOMAIN seq |-> IF seq[i].id = rec.id THEN rec ELSE seq[i]]
  ELSE Append(seq, rec)

NotId(rec, id) == rec.id # id

MapDelete(seq, id) == SelectSeq(seq, LAMBDA rec : NotId(rec, id))

\* String.prototype.toUpperCase on the codes of the model.
ToUpper(c) ==
  CASE c = "ab12cd" -> "AB12CD"
    [] c = "xy34zw" -> "XY34ZW"
    [] OTHER -> c

\* messages.get(currentRoomCode) || []
LogOf(code) == IF Has(messages, code) THEN messages[code] ELSE << >>

\* Variant: nothing is cut off.
LastNKeepsAll(seq, n) == seq

\* Array.prototype.slice(-n)
LastN(seq, n) ==
  IF Len(seq) <= n THEN seq ELSE SubSeq(seq, Len(seq) - n + 1, Len(seq))

NoUser == [id |-> Null, userName |-> Null, isOwner |-> FALSE]

NoShare == [userName |-> Null, socketId |-> Null, startedAt |-> 0]

\* video: null
NoVideo == [url |-> Null, title |-> Null, uploadedBy |-> Null]

InitialPlayback == [playing |-> FALSE, currentTime |-> 0, playbackRate |-> 1]

NoCall == [callerSocketId |-> Null, targetSocketId |-> Null,
           targetUserName |-> Null, roomCode |-> Null, status |-> Null]

\* The record kept in `last`: the event, the connection it came from, the
\* identity its payload named (arg: a socket, name or code; mid: a message;
\* pw: a password or reaction symbol), and the call record that connection
\* had; threw: an exception left the handler uncaught.
Did(op, s, arg) ==
  [op |-> op, s |-> s, arg |-> arg, mid |-> 0, pw |-> Null, threw |-> FALSE,
   cd |-> IF s \in DOMAIN activeCalls THEN activeCalls[s] ELSE NoCall,
   asked |-> last.asked]

\* The resynchronisation part of a room-joined payload; every other event
\* carries the empty one.
NoSnapshot ==
  [previousMessages |-> << >>, activeVideo |-> NoVideo,
   playbackState |-> InitialPlayback, screenSharing |-> NoShare]

\* An emitted event, as delivered to one connection.
Ev(to, ev, a, b) ==
  [to |-> to, ev |-> ev, a |-> a, b |-> b, num |-> 0, ul |-> << >>,
   snap |-> NoSnapshot]

\* io.to(roomCode): the connections that join()ed that socket.io room.
InRoom(code) == {t \in Sockets : code \in joined[t]}

\* io.to(socketId): every connection is in the room named by its own id.
ToSocket(id) == {t \in Sockets : t = id /\ conn[t] = "open"}

Emit(tos, ev, a, b) == {Ev(t, ev, a, b) : t \in tos}

\* updateUserList(roomCode), evaluated on the given registry and call index
\* and delivered to the given audience.
UserListOf(room, calls) ==
  [i \in DOMAIN room.users |->
     [id |-> room.users[i].id,
      userName |-> room.users[i].userName,
      isOwner |-> room.users[i].isOwner,
      isInCall |-> Has(calls, room.users[i].id)]]

updateUserList(code, rms, calls, audience) ==
  IF ~Has(rms, code) THEN {}
  ELSE {[to |-> t, ev |-> "user-list-update", a |-> code, b |-> "-",
         num |-> 0, ul |-> UserListOf(rms[code], calls), snap |-> NoSnapshot]
          : t \in audience}

\* ------------------------------------------------------------------- Init
Init ==
  /\ conn = [s \in Sockets |-> "idle"]
  /\ joined = [s \in Sockets |-> {}]
  /\ currentUser = [s \in Sockets |-> NoUser]
  /\ currentRoomCode = [s \in Sockets |-> Null]
  /\ rooms = << >>
  /\ users = << >>
  /\ messages = << >>
  /\ activeCalls = << >>
  /\ screenShareRequests = << >>
  /\ connectionMonitor = << >>
  /\ now = 0
  /\ pingDue = << >>
  /\ healthDue = HEALTH_PERIOD
  /\ cleanupDue = CLEANUP_PERIOD
  /\ graceTimers = {}
  /\ sent = {}
  /\ lastPong = << >>
  /\ hist = << >>
  /\ nextId = 0
  /\ userPlaylists = << >>
  /\ last = [op |-> "boot", s |-> Null, arg |-> Null, mid |-> 0,
             pw |-> Null, threw |-> FALSE, cd |-> NoCall, asked |-> {}]

\* ------------------------------------------------------------- connection
\* Connection identities are fresh; they are named in order of arrival.
MayConnect(s) ==
  /\ conn[s] = "idle"
  /\ \A i, j \in DOMAIN SocketOrder :
       (i < j /\ SocketOrder[j] = s) => conn[SocketOrder[i]] # "idle"

Connect(s) ==
  /\ MayConnect(s)
  /\ last' = Did("connect", s, Null)
  /\ conn' = [conn EXCEPT ![s] = "open"]
  /\ connectionMonitor' = Put(connectionMonitor, s,
        [userName |-> "Anonymous", roomCode |-> Null, lastPing |-> now,
         connectedAt |-> now])
  /\ pingDue' = Put(pingDue, s, now + PING_PERIOD)
  /\ lastPong' = Put(lastPong, s, now)
  /\ sent' = Emit({s}, "ice-servers", "-", "-")
  /\ UNCHANGED userPlaylists
  /\ UNCHANGED <<joined, currentUser, currentRoomCode, rooms, users, messages,
                 activeCalls, screenShareRequests, now, healthDue, cleanupDue,
                 graceTimers, hist, nextId>>

\* ------------------------------------------------------------ create-room
\* Variant: the first generated code is taken, used or not.
FreshCodeUnchecked(roomCode) == roomCode \in GenCodes

\* do { roomCode = generateRoomCode() } while (rooms.has(roomCode)): the
\* code the loop ends with is a generated one that no room is registered
\* under.
FreshCode(roomCode) == roomCode \in GenCodes /\ ~Has(rooms, roomCode)

CreateRoom(s, userName, roomCode, password) ==
  /\ conn[s] = "open"
  /\ last' = Did("create-room", s, roomCode)
  /\ FreshCode(roomCode)
  /\ LET user == [id |-> s, userName |-> userName, isOwner |-> TRUE]
         room == [code |-> roomCode,
                  password |-> password,
                  owner |-> s,
                  users |-> <<user>>,
                  video |-> NoVideo,
                  playbackState |-> InitialPlayback,
                  createdAt |-> now,
                  screenSharing |-> NoShare]
     IN /\ currentUser' = [currentUser EXCEPT ![s] = user]
        /\ rooms' = Put(rooms, roomCode, room)
        /\ users' = MapSet(users, [id |-> s, roomCode |-> roomCode,
                                   userName |-> userName, isOwner |-> TRUE])
        /\ currentRoomCode' = [currentRoomCode EXCEPT ![s] = roomCode]
        /\ joined' = [joined EXCEPT ![s] = @ \cup {roomCode}]
        /\ connectionMonitor' =
             IF Has(connectionMonitor, s)
             THEN [connectionMonitor EXCEPT ![s].userName = userName,
                                            ![s].roomCode = roomCode]
             ELSE Put(connectionMonitor, s,
                      [userName |-> userName, roomCode |-> roomCode,
                       lastPing |-> Undefined, connectedAt |-> Undefined])
        /\ sent' = Emit({s}, "room-created", roomCode, "-")
  /\ UNCHANGED userPlaylists
  /\ UNCHANGED <<conn, messages, activeCalls, screenShareRequests, now,
                 pingDue, healthDue, cleanupDue, graceTimers, lastPong, hist,
                 nextId>>

\* -------------------------------------------------------------- join-room
\* Variant: the password is never compared.
PasswordOkAlways(room, password) == TRUE

\* !(room.password && room.password !== password)
PasswordOk(room, password) ==
  room.password = Null \/ room.password = password

\* messages.get(roomCode): the key is the code as the payload spelt it.
JoinLogKey(room, roomCode) == roomCode

\* The resynchronisation part of the room-joined payload.
Snapshot(room, roomCode) ==
  [previousMessages |->
     LastN(LogOf(JoinLogKey(room, roomCode)), HISTORY_LEN),
   activeVideo |-> room.video,
   playbackState |-> room.playbackState,
   screenSharing |-> room.screenSharing]

JoinRoom(s, roomCode, userName, password) ==
  /\ conn[s] = "open"
  /\ last' = [Did("join-room", s, roomCode) EXCEPT !.pw = password]
  /\ LET key == ToUpper(roomCode) IN
     IF ~Has(rooms, key)
     THEN /\ sent' = Emit({s}, "error", "Oda bulunamadi", "-")
          /\ UNCHANGED <<joined, currentUser, currentRoomCode, rooms, users,
                         connectionMonitor, hist>>
     ELSE IF ~PasswordOk(rooms[key], password)
     THEN /\ sent' = Emit({s}, "error", "Sifre yanlis", "-")
          /\ UNCHANGED <<joined, currentUser, currentRoomCode, rooms, users,
                         connectionMonitor, hist>>
     ELSE
       LET room == rooms[key]
           user == [id |-> s, userName |-> userName,
                    isOwner |-> (room.owner = s)]
           rooms1 == [rooms EXCEPT ![key].users = MapSet(@, user)]
           joined1 == [joined EXCEPT ![s] = @ \cup {roomCode}]
           audience == {t \in Sockets : roomCode \in joined1[t]}
       IN /\ currentUser' = [currentUser EXCEPT ![s] = user]
          /\ rooms' = rooms1
          /\ users' = MapSet(users, [id |-> s, roomCode |-> roomCode,
                                     userName |-> userName,
                                     isOwner |-> user.isOwner])
          /\ currentRoomCode' = [currentRoomCode EXCEPT ![s] = roomCode]
          /\ joined' = joined1
          /\ connectionMonitor' =
               IF Has(connectionMonitor, s)
               THEN [connectionMonitor EXCEPT ![s].userName = userName,
                                              ![s].roomCode = roomCode]
               ELSE Put(connectionMonitor, s,
                        [userName |-> userName, roomCode |-> roomCode,
                         lastPing |-> Undefined, connectedAt |-> Undefined])
          /\ hist' = IF Has(hist, key) /\ Len(room.users) = 0
                     THEN [hist EXCEPT ![key].rejoined = TRUE]
                     ELSE hist
          /\ sent' = {[Ev(s, "room-joined", room.code, "-")
                          EXCEPT !.snap = Snapshot(room, roomCode)]}
                       \cup Emit(audience \ {s}, "user-joined", userName, "-")
                       \cup updateUserList(roomCode, rooms1, activeCalls,
                                           audience)
  /\ UNCHANGED userPlaylists
  /\ UNCHANGED <<conn, messages, activeCalls, screenShareRequests, now,
                 pingDue, healthDue, cleanupDue, graceTimers, lastPong,
                 nextId>>

\* ------------------------------------------------------------- start-call
\* users.forEach(...) overwrites targetSocketId on every match: the match
\* that is last in the Map's insertion order is the one kept.
\* Variant: the room of the mirror record is not compared.
MatchesAnyRoom(targetUserName, code) ==
  {i \in DOMAIN users : users[i].userName = targetUserName}

Matches(targetUserName, code) ==
  {i \in DOMAIN users : users[i].userName = targetUserName
                        /\ users[i].roomCode = code}

LastMatch(targetUserName, code) ==
  LET m == Matches(targetUserName, code)
  IN IF m = {} THEN Null
     ELSE users[CHOOSE i \in m : \A j \in m : j <= i].id

CallData(s, target, targetUserName) ==
  [callerSocketId |-> s, targetSocketId |-> target,
   targetUserName |-> targetUserName, roomCode |-> currentRoomCode[s],
   status |-> "ringing"]

\* activeCalls.set(socket.id, callData); activeCalls.set(targetSocketId, callData)
CallsAfterStart(calls, s, target, cd) == Put(Put(calls, s, cd), target, cd)

StartCall(s, targetUserName) ==
  /\ conn[s] = "open"
  /\ last' = Did("start-call", s, targetUserName)
  /\ LET target == LastMatch(targetUserName, currentRoomCode[s]) IN
     IF target # Null
     THEN /\ activeCalls' = CallsAfterStart(activeCalls, s, target,
                                            CallData(s, target, targetUserName))
          /\ sent' = Emit(ToSocket(target), "ice-servers", "-", "-")
                       \cup Emit(ToSocket(target), "incoming-call", s, "-")
     ELSE /\ sent' = Emit({s}, "call-error", "Kullanici bulunamadi", "-")
          /\ UNCHANGED activeCalls
  /\ UNCHANGED userPlaylists
  /\ UNCHANGED <<conn, joined, currentUser, currentRoomCode, rooms, users,
                 messages, screenShareRequests, connectionMonitor, now,
                 pingDue, healthDue, cleanupDue, graceTimers, lastPong, hist,
                 nextId>>

\* ------------------------------------------------------------ webrtc-answer
\* The answer is relayed to the last name match in the sender's room; no call
\* record is read or written.
WebrtcAnswer(s, targetUserName) ==
  /\ conn[s] = "open"
  /\ last' = Did("webrtc-answer", s, targetUserName)
  /\ LET target == LastMatch(targetUserName, currentRoomCode[s]) IN
     IF target # Null
     THEN sent' = Emit(ToSocket(target), "webrtc-answer",
                       currentUser[s].userName, "-")
     ELSE sent' = {}
  /\ UNCHANGED userPlaylists
  /\ UNCHANGED <<conn, joined, currentUser, currentRoomCode, rooms, users,
                 messages, activeCalls, screenShareRequests, connectionMonitor,
                 now, pingDue, healthDue, cleanupDue, graceTimers, lastPong,
                 hist, nextId>>

\* The other revision (src/unnamed/part_000) relays the answer to the
\* connection the payload names.
WebrtcAnswerById(s, targetSocketId) ==
  /\ conn[s] = "open"
  /\ last' = Did("webrtc-answer", s, targetSocketId)
  /\ sent' = IF targetSocketId # Null
             THEN Emit(ToSocket(targetSocketId), "webrtc-answer",
                       currentUser[s].userName, s)
             ELSE {}
  /\ UNCHANGED userPlaylists
  /\ UNCHANGED <<conn, joined, currentUser, currentRoomCode, rooms, users,
                 messages, activeCalls, screenShareRequests, connectionMonitor,
                 now, pingDue, healthDue, cleanupDue, graceTimers, lastPong,
                 hist, nextId>>

\* ----------------------------------------------------- webrtc-ice-candidate
\* The candidate is relayed to the last name match in the sender's room.
WebrtcIceCandidate(s, targetUserName) ==
  /\ conn[s] = "open"
  /\ last' = Did("webrtc-ice-candidate", s, targetUserName)
  /\ LET target == LastMatch(targetUserName, currentRoomCode[s]) IN
     IF target # Null
     THEN sent' = Emit(ToSocket(target), "webrtc-ice-candidate", "-", s)
     ELSE sent' = {}
  /\ UNCHANGED userPlaylists
  /\ UNCHANGED <<conn, joined, currentUser, currentRoomCode, rooms, users,
                 messages, activeCalls, screenShareRequests, connectionMonitor,
                 now, pingDue, healthDue, cleanupDue, graceTimers, lastPong,
                 hist, nextId>>

\* The other revision relays the candidate to the connection the payload
\* names.
WebrtcIceCandidateById(s, targetSocketId) ==
  /\ conn[s] = "open"
  /\ last' = Did("webrtc-ice-candidate", s, targetSocketId)
  /\ sent' = IF targetSocketId # Null
             THEN Emit(ToSocket(targetSocketId), "webrtc-ice-candidate",
                       "-", s)
             ELSE {}
  /\ UNCHANGED userPlaylists
  /\ UNCHANGED <<conn, joined, currentUser, currentRoomCode, rooms, users,
                 messages, activeCalls, screenShareRequests, connectionMonitor,
                 now, pingDue, healthDue, cleanupDue, graceTimers, lastPong,
                 hist, nextId>>

\* ------------------------------------------------- reject-call / end-call
OtherParty(cd, s) ==
  IF cd.callerSocketId = s THEN cd.targetSocketId ELSE cd.callerSocketId

\* Variant: only the caller's entry is deleted.
CallsAfterEndCallerOnly(calls, cd) == Del(calls, cd.callerSocketId)

\* activeCalls.delete(callData.callerSocketId);
\* activeCalls.delete(callData.targetSocketId)
CallsAfterEnd(calls, cd) == Del(Del(calls, cd.callerSocketId), cd.targetSocketId)

RejectCall(s, callerSocketId) ==
  /\ conn[s] = "open"
  /\ last' = Did("reject-call", s, callerSocketId)
  /\ IF Has(activeCalls, s)
     THEN LET calls1 == CallsAfterEnd(activeCalls, activeCalls[s]) IN
          /\ activeCalls' = calls1
          /\ sent' = Emit(ToSocket(callerSocketId), "call-rejected",
                          currentUser[s].userName, "-")
                       \cup updateUserList(currentRoomCode[s], rooms, calls1,
                                           InRoom(currentRoomCode[s]))
     ELSE /\ sent' = {}
          /\ UNCHANGED activeCalls
  /\ UNCHANGED userPlaylists
  /\ UNCHANGED <<conn, joined, currentUser, currentRoomCode, rooms, users,
                 messages, screenShareRequests, connectionMonitor, now,
                 pingDue, healthDue, cleanupDue, graceTimers, lastPong, hist,
                 nextId>>

EndCall(s, targetSocketId) ==
  /\ conn[s] = "open"
  /\ last' = Did("end-call", s, targetSocketId)
  /\ IF Has(activeCalls, s)
     THEN LET cd == activeCalls[s]
              calls1 == CallsAfterEnd(activeCalls, cd) IN
          /\ activeCalls' = calls1
          /\ sent' = Emit(ToSocket(OtherParty(cd, s)), "call-ended",
                          currentUser[s].userName, "-")
                       \cup updateUserList(currentRoomCode[s], rooms, calls1,
                                           InRoom(currentRoomCode[s]))
     ELSE IF targetSocketId # Null
     THEN LET calls1 == Del(Del(activeCalls, s), targetSocketId) IN
          /\ activeCalls' = calls1
          /\ sent' = Emit(ToSocket(targetSocketId), "call-ended",
                          currentUser[s].userName, "-")
                       \cup updateUserList(currentRoomCode[s], rooms, calls1,
                                           InRoom(currentRoomCode[s]))
     ELSE /\ sent' = {}
          /\ UNCHANGED activeCalls
  /\ UNCHANGED userPlaylists
  /\ UNCHANGED <<conn, joined, currentUser, currentRoomCode, rooms, users,
                 messages, screenShareRequests, connectionMonitor, now,
                 pingDue, healthDue, cleanupDue, graceTimers, lastPong, hist,
                 nextId>>

\* ------------------------------------------------------------- disconnect
\* Variant: the counterpart's entry is left in place.
CallsAfterDisconnectOwnOnly(calls, s) == Del(calls, s)

\* The call part of the disconnect handler: the counterpart named in the
\* connection's own record and the connection itself lose their entries.
CallsAfterDisconnect(calls, s) ==
  IF Has(calls, s) THEN Del(Del(calls, OtherParty(calls[s], s)), s) ELSE calls

\* The room resolved by the disconnect handler in registry rms, if any.
RoomIn(rms, s) ==
  IF currentRoomCode[s] # Null /\ Has(rms, currentRoomCode[s])
  THEN currentRoomCode[s] ELSE Null

RoomOf(s) == RoomIn(rooms, s)

HoldsGrantIn(rms, s) ==
  /\ RoomIn(rms, s) # Null
  /\ rms[RoomIn(rms, s)].screenSharing.socketId = s

HoldsGrant(s) == HoldsGrantIn(rooms, s)

LeavesRoomIn(rms, s) == currentUser[s] # NoUser /\ RoomIn(rms, s) # Null

LeavesRoom(s) == LeavesRoomIn(rooms, s)

\* What the disconnect handler reads and writes, with the events sent so
\* far in the step.
Here ==
  [conn |-> conn, joined |-> joined, pingDue |-> pingDue,
   connectionMonitor |-> connectionMonitor, activeCalls |-> activeCalls,
   rooms |-> rooms, users |-> users,
   screenShareRequests |-> screenShareRequests, graceTimers |-> graceTimers,
   hist |-> hist, sent |-> {}]

\* The disconnect handler run on w, for a connection socket.io has already
\* taken out of every socket.io room.
Unwind(w, s) ==
  LET code == currentRoomCode[s]
      joined1 == [w.joined EXCEPT ![s] = {}]
      audience == {t \in Sockets : code \in joined1[t]}
      calls1 == CallsAfterDisconnect(w.activeCalls, s)
      rooms1 == IF HoldsGrantIn(w.rooms, s)
                THEN [w.rooms EXCEPT ![code].screenSharing = NoShare]
                ELSE w.rooms
      leaves == LeavesRoomIn(w.rooms, s)
      rooms2 == IF leaves
                THEN [rooms1 EXCEPT ![code].users = MapDelete(@, s)]
                ELSE rooms1
      emptied == leaves /\ Len(rooms2[code].users) = 0
  IN [conn |-> [w.conn EXCEPT ![s] = "closed"],
      joined |-> joined1,
      pingDue |-> Del(w.pingDue, s),
      connectionMonitor |-> Del(w.connectionMonitor, s),
      activeCalls |-> calls1,
      rooms |-> rooms2,
      users |-> IF leaves THEN MapDelete(w.users, s) ELSE w.users,
      screenShareRequests |-> IF leaves THEN Del(w.screenShareRequests, s)
                              ELSE w.screenShareRequests,
      graceTimers |-> IF emptied
                      THEN w.graceTimers \cup
                             {[code |-> code, due |-> now + GRACE_PERIOD]}
                      ELSE w.graceTimers,
      hist |-> IF emptied
               THEN Put(w.hist, code,
                        [emptiedAt |-> now,
                         rejoined |-> Has(w.hist, code)
                                      /\ w.hist[code].rejoined])
               ELSE w.hist,
      sent |-> w.sent
          \cup (IF Has(w.activeCalls, s)
                THEN Emit({t \in Sockets :
                             /\ t = OtherParty(w.activeCalls[s], s)
                             /\ t # s
                             /\ w.conn[t] = "open"},
                          "call-ended", "Sistem", "connection_lost")
                ELSE {})
          \cup (IF HoldsGrantIn(w.rooms, s)
                THEN Emit(audience, "screen-share-stopped",
                          currentUser[s].userName, "-")
                ELSE {})
          \cup (IF leaves
                THEN Emit(audience, "user-left", currentUser[s].userName, "-")
                       \cup updateUserList(code, rooms2, calls1, audience)
                ELSE {})]

\* The step's result w becomes the next state.
Becomes(w) ==
  /\ conn' = w.conn
  /\ joined' = w.joined
  /\ pingDue' = w.pingDue
  /\ connectionMonitor' = w.connectionMonitor
  /\ activeCalls' = w.activeCalls
  /\ rooms' = w.rooms
  /\ users' = w.users
  /\ screenShareRequests' = w.screenShareRequests
  /\ graceTimers' = w.graceTimers
  /\ hist' = w.hist
  /\ sent' = w.sent

DisconnectEffect(s) ==
  /\ Becomes(Unwind(Here, s))
  /\ last' = Did("disconnect", s, Null)
  /\ UNCHANGED userPlaylists
  /\ UNCHANGED <<currentUser, currentRoomCode, messages, lastPong, nextId>>

\* The transport has closed, on the client's side or through the network.
Disconnect(s) ==
  /\ conn[s] = "open"
  /\ DisconnectEffect(s)
  /\ UNCHANGED <<now, healthDue, cleanupDue>>

\* -------------------------------------------------- call-signaling runs
NextCalls ==
  \/ \E s \in Sockets : Connect(s)
  \/ \E s \in Sockets : CreateRoom(s, NameOf(s), "AB12CD", NoPassword)
  \/ \E s \in Sockets : JoinRoom(s, "AB12CD", NameOf(s), NoPassword)
  \/ \E s \in Sockets, n \in Names : StartCall(s, n)
  \/ \E s \in Sockets, t \in Sockets \cup {Null} : RejectCall(s, t)
  \/ \E s \in Sockets, t \in Sockets \cup {Null} : EndCall(s, t)
  \/ \E s \in Sockets : Disconnect(s)

SpecCalls == Init /\ [][NextCalls]_vars

\* ---------------------------------------------------------------- C1
\* C1: the call index is symmetric and single-valued: whenever a connection
\* x has a call record, the other party y of that record has an entry holding
\* the same record, so no dangling half-call entry exists.
C1_CallIndexSymmetric ==
  \A x \in DOMAIN activeCalls :
    LET y == OtherParty(activeCalls[x], x)
    IN /\ x \in {activeCalls[x].callerSocketId, activeCalls[x].targetSocketId}
       /\ Has(activeCalls, y)
       /\ activeCalls[y] = activeCalls[x]

\* ---------------------------------------------------------------- C6
\* C6: after an end-call or reject-call from a connection that had a call
\* record, neither the caller nor the callee of that record has an entry in
\* the call index, whatever socket identity the payload named.
C6_EndClearsBothSides ==
  (last.op \in {"end-call", "reject-call"} /\ last.cd # NoCall)
    => /\ ~Has(activeCalls, last.cd.callerSocketId)
       /\ ~Has(activeCalls, last.cd.targetSocketId)

\* An end-call whose payload named a connection that is not the counterpart
\* has just cleared a call between two distinct connections.
C6_Witness ==
  /\ last.op = "end-call"
  /\ last.cd # NoCall
  /\ last.cd.callerSocketId # last.cd.targetSocketId
  /\ last.arg # OtherParty(last.cd, last.s)
  /\ last.arg # Null
  /\ \E e \in sent : e.ev = "call-ended"

\* ---------------------------------------------------------------- C7
\* C7: when a connection with a call record disconnects, its (still
\* connected) counterpart receives call-ended with reason "connection_lost",
\* both call-index entries are gone, the membership list is published to
\* everyone left in the disconnecting connection's room whenever that room
\* is registered under the code the connection holds, and every membership
\* list published by the handler shows the counterpart with isInCall false.
C7_DisconnectEndsCall ==
  (last.op = "disconnect" /\ last.cd # NoCall) =>
    LET s == last.s
        o == OtherParty(last.cd, s)
    IN /\ (o # s /\ conn[o] = "open")
            => Ev(o, "call-ended", "Sistem", "connection_lost") \in sent
       /\ ~Has(activeCalls, s)
       /\ ~Has(activeCalls, o)
       /\ LeavesRoom(s) =>
            \A t \in InRoom(currentRoomCode[s]) :
              \E e \in sent : e.to = t /\ e.ev = "user-list-update"
       /\ \A e \in sent :
            e.ev = "user-list-update" =>
              \A i \in DOMAIN e.ul : e.ul[i].id = o => ~e.ul[i].isInCall

\* The caller has disconnected while the call was ringing: the callee got
\* call-ended and a membership list that shows it not in a call.
C7_Witness ==
  /\ last.op = "disconnect"
  /\ last.cd # NoCall
  /\ last.cd.callerSocketId = last.s
  /\ last.cd.targetSocketId # last.s
  /\ Ev(last.cd.targetSocketId, "call-ended", "Sistem", "connection_lost")
       \in sent
  /\ \E e \in sent :
       /\ e.to = last.cd.targetSocketId
       /\ e.ev = "user-list-update"
       /\ \E i \in DOMAIN e.ul :
            e.ul[i].id = last.cd.targetSocketId /\ ~e.ul[i].isInCall

\* ---------------------------------------------------------------- message
Texts == {"hi", "yo"}

\* Message identities (Date.now() + random suffix) are taken to be unique.
MessageIds == 1..MaxMsgs

InARoom(s) == currentRoomCode[s] # Null /\ currentUser[s] # NoUser

\* Variant: an identity that is not found falls back to the first entry.
FindIndexOrFirst(log, messageId) ==
  IF \E i \in DOMAIN log : log[i].id = messageId
  THEN CHOOSE i \in DOMAIN log :
         /\ log[i].id = messageId
         /\ \A j \in DOMAIN log : log[j].id = messageId => i <= j
  ELSE IF log # << >> THEN 1 ELSE 0

\* Array.prototype.findIndex(msg => msg.id === messageId); 0 stands for -1.
FindIndex(log, messageId) ==
  IF \E i \in DOMAIN log : log[i].id = messageId
  THEN CHOOSE i \in DOMAIN log :
         /\ log[i].id = messageId
         /\ \A j \in DOMAIN log : log[j].id = messageId => i <= j
  ELSE 0

\* The handler itself.
PostMessage(s, text) ==
  /\ conn[s] = "open"
  /\ last' = Did("message", s, Null)
  /\ IF ~InARoom(s)
     THEN /\ sent' = {}
          /\ UNCHANGED <<messages, nextId>>
     ELSE LET code == currentRoomCode[s]
              message == [id |-> nextId + 1,
                          userName |-> currentUser[s].userName,
                          text |-> text,
                          edited |-> FALSE,
                          deleted |-> FALSE,
                          reactions |-> << >>,
                          seenBy |-> <<currentUser[s].userName>>,
                          poster |-> s]
              log == Append(LogOf(code), message)
          IN /\ messages' = Put(messages, code, LastN(log, MESSAGE_CAP))
             /\ nextId' = nextId + 1
             /\ sent' = Emit(InRoom(code), "message", message.userName, text)
  /\ UNCHANGED userPlaylists
  /\ UNCHANGED <<conn, joined, currentUser, currentRoomCode, rooms, users,
                 activeCalls, screenShareRequests, connectionMonitor, now,
                 pingDue, healthDue, cleanupDue, graceTimers, lastPong, hist>>

\* A post, while the run has posts left.
Message(s, text) == nextId < MaxMsgs /\ PostMessage(s, text)

\* A post of a run long enough to fill a log.
MessageBurst(s, text) == nextId < MaxBurst /\ PostMessage(s, text)

\* ----------------------------------------------- edit-message / delete-message
\* Variant: no author test.
IsAuthorAlways(msg, user) == TRUE

\* Variant: the author is the posting connection, not the name.
IsAuthorByConnection(msg, user) == msg.poster = user.id

\* The author test of both handlers.
IsAuthor(msg, user) == msg.userName = user.userName

\* Variant: the edit also empties the reaction map.
EditedDropsReactions(msg, newText) ==
  [msg EXCEPT !.text = newText, !.edited = TRUE, !.reactions = << >>]

\* The assignments of a successful edit (editTime is a display string and
\* is not kept).
Edited(msg, newText) == [msg EXCEPT !.text = newText, !.edited = TRUE]

EditMessage(s, messageId, newText) ==
  /\ conn[s] = "open"
  /\ last' = [Did("edit-message", s, Null) EXCEPT !.mid = messageId]
  /\ LET code == currentRoomCode[s]
         log == LogOf(code)
         i == FindIndex(log, messageId)
     IN IF InARoom(s) /\ i # 0 /\ IsAuthor(log[i], currentUser[s])
        THEN /\ messages' = [messages EXCEPT
                               ![code][i] = Edited(log[i], newText)]
             /\ sent' = Emit(InRoom(code), "message-edited", "-", newText)
        ELSE /\ sent' = {}
             /\ UNCHANGED messages
  /\ UNCHANGED userPlaylists
  /\ UNCHANGED <<conn, joined, currentUser, currentRoomCode, rooms, users,
                 activeCalls, screenShareRequests, connectionMonitor, now,
                 pingDue, healthDue, cleanupDue, graceTimers, lastPong, hist,
                 nextId>>

DeleteMessage(s, messageId) ==
  /\ conn[s] = "open"
  /\ last' = [Did("delete-message", s, Null) EXCEPT !.mid = messageId]
  /\ LET code == currentRoomCode[s]
         log == LogOf(code)
         i == FindIndex(log, messageId)
     IN IF InARoom(s) /\ i # 0 /\ IsAuthor(log[i], currentUser[s])
        THEN /\ messages' = [messages EXCEPT ![code][i].deleted = TRUE]
             /\ sent' = Emit(InRoom(code), "message-deleted",
                             currentUser[s].userName, "-")
        ELSE /\ sent' = {}
             /\ UNCHANGED messages
  /\ UNCHANGED userPlaylists
  /\ UNCHANGED <<conn, joined, currentUser, currentRoomCode, rooms, users,
                 activeCalls, screenShareRequests, connectionMonitor, now,
                 pingDue, healthDue, cleanupDue, graceTimers, lastPong, hist,
                 nextId>>

\* ------------------------------------------- message-reaction / message-seen
\* Reaction symbols.
Reactions == {"heart", "laugh"}

\* Variant: a repeated symbol is stored again.
ToggleReactionSetOnly(reactions, userName, reaction) ==
  Put(reactions, userName, reaction)

\* reactions[userName] === reaction ? delete reactions[userName]
\*                                  : reactions[userName] = reaction
ToggleReaction(reactions, userName, reaction) ==
  IF Has(reactions, userName) /\ reactions[userName] = reaction
  THEN Del(reactions, userName)
  ELSE Put(reactions, userName, reaction)

MessageReaction(s, messageId, reaction) ==
  /\ conn[s] = "open"
  /\ last' = [Did("message-reaction", s, Null) EXCEPT !.mid = messageId,
                                                      !.pw = reaction]
  /\ LET code == currentRoomCode[s]
         log == LogOf(code)
         i == FindIndex(log, messageId)
     IN IF InARoom(s) /\ i # 0
        THEN /\ messages' =
                  [messages EXCEPT ![code][i].reactions =
                     ToggleReaction(@, currentUser[s].userName, reaction)]
             /\ sent' = Emit(InRoom(code), "message-reaction-updated", "-", "-")
        ELSE /\ sent' = {}
             /\ UNCHANGED messages
  /\ UNCHANGED userPlaylists
  /\ UNCHANGED <<conn, joined, currentUser, currentRoomCode, rooms, users,
                 activeCalls, screenShareRequests, connectionMonitor, now,
                 pingDue, healthDue, cleanupDue, graceTimers, lastPong, hist,
                 nextId>>

\* Variant: the name is never found.
IncludesNever(seq, x) == FALSE

\* Array.prototype.includes
Includes(seq, x) == \E i \in DOMAIN seq : seq[i] = x

MessageSeen(s, messageId) ==
  /\ conn[s] = "open"
  /\ last' = [Did("message-seen", s, Null) EXCEPT !.mid = messageId]
  /\ LET code == currentRoomCode[s]
         log == LogOf(code)
         i == FindIndex(log, messageId)
     IN IF InARoom(s) /\ i # 0
           /\ ~Includes(log[i].seenBy, currentUser[s].userName)
        THEN /\ messages' =
                  [messages EXCEPT ![code][i].seenBy =
                     Append(@, currentUser[s].userName)]
             /\ sent' = Emit(InRoom(code), "message-seen-updated", "-", "-")
        ELSE /\ sent' = {}
             /\ UNCHANGED messages
  /\ UNCHANGED userPlaylists
  /\ UNCHANGED <<conn, joined, currentUser, currentRoomCode, rooms, users,
                 activeCalls, screenShareRequests, connectionMonitor, now,
                 pingDue, healthDue, cleanupDue, graceTimers, lastPong, hist,
                 nextId>>

\* ---------------------------------------------------------- video handlers
\* Variant: every connection in a room passes.
MayControlAnyone(s) == InARoom(s)

\* !(!currentRoomCode || !currentUser || !currentUser.isOwner)
MayControl(s) == InARoom(s) /\ currentUser[s].isOwner

\* title || 'Video'
TitleOr(title, default) == IF title = Null THEN default ELSE title

\* { ...room.playbackState, ...controlData }
Merge(playbackState, controlData) ==
  [k \in (DOMAIN playbackState) \cup (DOMAIN controlData) |->
     IF k \in DOMAIN controlData THEN controlData[k] ELSE playbackState[k]]

\* An event whose payload is a playback state.
PlaybackEv(to, ev, playbackState) ==
  [Ev(to, ev, "-", "-") EXCEPT
     !.snap = [NoSnapshot EXCEPT !.playbackState = playbackState]]

UploadVideo(s, videoBase64, title) ==
  /\ conn[s] = "open"
  /\ last' = Did("upload-video", s, Null)
  /\ LET code == currentRoomCode[s] IN
     IF ~MayControl(s)
     THEN /\ sent' = Emit({s}, "error", "Yetkiniz yok", "-")
          /\ UNCHANGED rooms
     ELSE IF ~Has(rooms, code)
     THEN /\ sent' = Emit({s}, "error", "Video yuklenemedi", "-")
          /\ UNCHANGED rooms
     ELSE /\ rooms' = [rooms EXCEPT ![code].video =
                         [url |-> videoBase64,
                          title |-> TitleOr(title, "Video"),
                          uploadedBy |-> currentUser[s].userName]]
          /\ sent' = Emit(InRoom(code), "video-uploaded", videoBase64,
                          TitleOr(title, "Video"))
                       \cup {[Ev(s, "upload-progress", "completed", "-")
                                EXCEPT !.num = 100]}
  /\ UNCHANGED userPlaylists
  /\ UNCHANGED <<conn, joined, currentUser, currentRoomCode, users, messages,
                 activeCalls, screenShareRequests, connectionMonitor, now,
                 pingDue, healthDue, cleanupDue, graceTimers, lastPong, hist,
                 nextId>>

\* extractYouTubeId on the links used here: the 11 characters that follow
\* "v=", "embed/" or "youtu.be/", null when the pattern does not match.
YouTubeIds ==
  [url \in {"https://www.youtube.com/watch?v=dQw4w9WgXcQ",
            "https://youtu.be/dQw4w9WgXcQ",
            "https://www.youtube.com/embed/dQw4w9WgXcQ"} |-> "dQw4w9WgXcQ"]

ExtractYouTubeId(url) ==
  IF url \in DOMAIN YouTubeIds THEN YouTubeIds[url] ELSE Null

\* share-youtube-link is open to every connection that is in a room; the
\* link is tested before the room is touched, and the TypeError of a code
\* that resolves to no room is caught by the handler.
ShareYoutubeLink(s, youtubeUrl, title) ==
  /\ conn[s] = "open"
  /\ last' = Did("share-youtube-link", s, youtubeUrl)
  /\ LET code == currentRoomCode[s]
         videoId == ExtractYouTubeId(youtubeUrl)
         state == [playing |-> TRUE, currentTime |-> 0, playbackRate |-> 1,
                   videoId |-> videoId]
     IN IF ~InARoom(s)
        THEN /\ sent' = {}
             /\ UNCHANGED rooms
        ELSE IF videoId = Null
        THEN /\ sent' = Emit({s}, "error", "Gecersiz YouTube linki", "-")
             /\ UNCHANGED rooms
        ELSE IF ~Has(rooms, code)
        THEN /\ sent' = {}
             /\ UNCHANGED rooms
        ELSE /\ rooms' = [rooms EXCEPT
                            ![code].video =
                              [type |-> "youtube",
                               videoId |-> videoId,
                               url |-> youtubeUrl,
                               title |-> TitleOr(title, "YouTube Video"),
                               uploadedBy |-> currentUser[s].userName],
                            ![code].playbackState = state]
             /\ sent' = {[PlaybackEv(t, "youtube-video-shared", state) EXCEPT
                            !.a = videoId,
                            !.b = TitleOr(title, "YouTube Video")]
                          : t \in InRoom(code)}
  /\ UNCHANGED userPlaylists
  /\ UNCHANGED <<conn, joined, currentUser, currentRoomCode, users, messages,
                 activeCalls, screenShareRequests, connectionMonitor, now,
                 pingDue, healthDue, cleanupDue, graceTimers, lastPong, hist,
                 nextId>>

\* video-control and youtube-control differ in the event's name and in
\* whether the sender is in its audience; neither has a try block, so the
\* TypeError of a code that resolves to no room leaves the handler.
Control(s, op, controlData, audience) ==
  /\ LET code == currentRoomCode[s] IN
     IF ~MayControl(s)
     THEN /\ last' = Did(op, s, controlData)
          /\ sent' = {}
          /\ UNCHANGED rooms
     ELSE IF ~Has(rooms, code)
     THEN /\ last' = [Did(op, s, controlData) EXCEPT !.threw = TRUE]
          /\ sent' = {}
          /\ UNCHANGED rooms
     ELSE LET state == Merge(rooms[code].playbackState, controlData) IN
          /\ last' = Did(op, s, controlData)
          /\ rooms' = [rooms EXCEPT ![code].playbackState = state]
          /\ sent' = {PlaybackEv(t, op, state) : t \in audience}
  /\ UNCHANGED userPlaylists
  /\ UNCHANGED <<conn, joined, currentUser, currentRoomCode, users, messages,
                 activeCalls, screenShareRequests, connectionMonitor, now,
                 pingDue, healthDue, cleanupDue, graceTimers, lastPong, hist,
                 nextId>>

VideoControl(s, controlData) ==
  /\ conn[s] = "open"
  /\ Control(s, "video-control", controlData, InRoom(currentRoomCode[s]))

YoutubeControl(s, controlData) ==
  /\ conn[s] = "open"
  /\ Control(s, "youtube-control", controlData,
             InRoom(currentRoomCode[s]) \ {s})

DeleteVideo(s) ==
  /\ conn[s] = "open"
  /\ LET code == currentRoomCode[s] IN
     IF ~MayControl(s)
     THEN /\ last' = Did("delete-video", s, Null)
          /\ sent' = {}
          /\ UNCHANGED rooms
     ELSE IF ~Has(rooms, code)
     THEN /\ last' = [Did("delete-video", s, Null) EXCEPT !.threw = TRUE]
          /\ sent' = {}
          /\ UNCHANGED rooms
     ELSE /\ last' = Did("delete-video", s, Null)
          /\ rooms' = [rooms EXCEPT ![code].video = NoVideo,
                                    ![code].playbackState = InitialPlayback]
          /\ sent' = Emit(InRoom(code), "video-deleted", "-", "-")
  /\ UNCHANGED userPlaylists
  /\ UNCHANGED <<conn, joined, currentUser, currentRoomCode, users, messages,
                 activeCalls, screenShareRequests, connectionMonitor, now,
                 pingDue, healthDue, cleanupDue, graceTimers, lastPong, hist,
                 nextId>>

\* ------------------------------------------------------ playlist handlers
\* userPlaylists.get(currentRoomCode), as track counts by display name.
PlaylistOf(code) ==
  IF Has(userPlaylists, code) THEN userPlaylists[code] ELSE << >>

Tracks(playlist, userName) ==
  IF Has(playlist, userName) THEN playlist[userName] ELSE 0

\* Math.round((usersWithMusic / totalUsers) * 100); a division by zero
\* gives no percentage.
Progress(usersWithMusic, totalUsers) ==
  IF totalUsers = 0 THEN Undefined
  ELSE (200 * usersWithMusic + totalUsers) \div (2 * totalUsers)

\* Array.from(roomPlaylist.keys()).length
KeysCount(playlist) == Cardinality(DOMAIN playlist)

\* keys().filter(user => roomPlaylist.get(user).length > 0).length
NonEmptyCount(playlist) ==
  Cardinality({n \in DOMAIN playlist : playlist[n] > 0})

\* room.users.forEach: the last member bearing the name.
LastMember(room, userName) ==
  LET m == {i \in DOMAIN room.users : room.users[i].userName = userName}
  IN IF m = {} THEN Null
     ELSE room.users[CHOOSE i \in m : \A j \in m : j <= i].id

\* The playlist-updated event.
PlaylistEv(to, progress) ==
  [Ev(to, "playlist-updated", "-", "-") EXCEPT !.num = progress]

\* The track is stored before the room is looked at: when the code resolves
\* to no room the TypeError is caught after the store and nothing is sent.
UploadPlaylistMusic(s) ==
  /\ conn[s] = "open"
  /\ last' = Did("upload-playlist-music", s, Null)
  /\ IF ~InARoom(s)
     THEN /\ sent' = {}
          /\ UNCHANGED userPlaylists
     ELSE LET code == currentRoomCode[s]
              name == currentUser[s].userName
              playlist ==
                Put(PlaylistOf(code), name, Tracks(PlaylistOf(code), name) + 1)
          IN /\ Tracks(PlaylistOf(code), name) < MaxTracks
             /\ userPlaylists' = Put(userPlaylists, code, playlist)
             /\ sent' =
                  IF ~Has(rooms, code) THEN {}
                  ELSE {PlaylistEv(t, Progress(KeysCount(playlist),
                                              Len(rooms[code].users)))
                          : t \in InRoom(code)}
  /\ UNCHANGED <<conn, joined, currentUser, currentRoomCode, rooms, users,
                 messages, activeCalls, screenShareRequests, connectionMonitor,
                 now, pingDue, healthDue, cleanupDue, graceTimers, lastPong,
                 hist, nextId>>

\* The music-delete-request events delivered so far are remembered as
\* (requester name, receiving connection) pairs in last.asked.
RequestDeleteMusic(s, targetUserName) ==
  /\ conn[s] = "open"
  /\ sent' =
       IF InARoom(s) /\ Has(rooms, currentRoomCode[s])
       THEN Emit(ToSocket(LastMember(rooms[currentRoomCode[s]],
                                     targetUserName)),
                 "music-delete-request", currentUser[s].userName, "-")
       ELSE {}
  /\ last' = [Did("request-delete-music", s, targetUserName) EXCEPT
               !.asked = @ \cup {[from |-> e.a, to |-> e.to] : e \in sent'}]
  /\ UNCHANGED userPlaylists
  /\ UNCHANGED <<conn, joined, currentUser, currentRoomCode, rooms, users,
                 messages, activeCalls, screenShareRequests, connectionMonitor,
                 now, pingDue, healthDue, cleanupDue, graceTimers, lastPong,
                 hist, nextId>>

\* The list is cleared before the room is looked at, as in the upload.
ConfirmDeleteMusic(s, requesterName) ==
  /\ conn[s] = "open"
  /\ last' = Did("confirm-delete-music", s, requesterName)
  /\ LET code == currentRoomCode[s]
         name == currentUser[s].userName
     IN IF InARoom(s) /\ Has(userPlaylists, code)
           /\ Has(userPlaylists[code], name)
        THEN LET playlist == Put(userPlaylists[code], name, 0) IN
             /\ userPlaylists' = Put(userPlaylists, code, playlist)
             /\ sent' =
                  IF ~Has(rooms, code) THEN {}
                  ELSE {PlaylistEv(t, Progress(NonEmptyCount(playlist),
                                              Len(rooms[code].users)))
                          : t \in InRoom(code)}
                       \cup Emit(ToSocket(LastMember(rooms[code],
                                                     requesterName)),
                                 "music-deleted", name, "-")
        ELSE /\ sent' = {}
             /\ UNCHANGED userPlaylists
  /\ UNCHANGED <<conn, joined, currentUser, currentRoomCode, rooms, users,
                 messages, activeCalls, screenShareRequests, connectionMonitor,
                 now, pingDue, healthDue, cleanupDue, graceTimers, lastPong,
                 hist, nextId>>

\* ---------------------------------------------------- request-screen-share
\* room.users.forEach: the last member whose isOwner flag is set.
OwnerIn(room) ==
  LET m == {i \in DOMAIN room.users : room.users[i].isOwner}
  IN IF m = {} THEN Null
     ELSE room.users[CHOOSE i \in m : \A j \in m : j <= i].id

RequestScreenShare(s) ==
  /\ conn[s] = "open"
  /\ last' = Did("request-screen-share", s, Null)
  /\ IF InARoom(s) /\ Has(rooms, currentRoomCode[s])
        /\ OwnerIn(rooms[currentRoomCode[s]]) # Null
     THEN /\ screenShareRequests' = Put(screenShareRequests, s,
                [requesterName |-> currentUser[s].userName,
                 requesterSocketId |-> s,
                 roomCode |-> currentRoomCode[s],
                 timestamp |-> now])
          /\ sent' = Emit(ToSocket(OwnerIn(rooms[currentRoomCode[s]])),
                          "screen-share-request", currentUser[s].userName, s)
     ELSE /\ sent' = {}
          /\ UNCHANGED screenShareRequests
  /\ UNCHANGED userPlaylists
  /\ UNCHANGED <<conn, joined, currentUser, currentRoomCode, rooms, users,
                 messages, activeCalls, connectionMonitor, now, pingDue,
                 healthDue, cleanupDue, graceTimers, lastPong, hist, nextId>>

\* ------------------------------------ approve- / reject-screen-share
\* The guard of both handlers: the caller is in a room and carries the
\* owner flag it was given when it entered that room.
MayDecide(s, requesterSocketId) ==
  /\ InARoom(s)
  /\ currentUser[s].isOwner
  /\ Has(screenShareRequests, requesterSocketId)

ApproveScreenShare(s, requesterSocketId) ==
  /\ conn[s] = "open"
  /\ last' = Did("approve-screen-share", s, requesterSocketId)
  /\ IF MayDecide(s, requesterSocketId) /\ Has(rooms, currentRoomCode[s])
     THEN LET request == screenShareRequests[requesterSocketId]
              code == currentRoomCode[s]
          IN /\ rooms' = [rooms EXCEPT ![code].screenSharing =
                            [userName |-> request.requesterName,
                             socketId |-> requesterSocketId,
                             startedAt |-> now]]
             /\ screenShareRequests' =
                  Del(screenShareRequests, requesterSocketId)
             /\ sent' = Emit(ToSocket(requesterSocketId),
                             "screen-share-approved", "-", "-")
                          \cup Emit(InRoom(code), "screen-share-started",
                                    request.requesterName, "-")
     ELSE \* not allowed, no such request, or rooms.get(...) is undefined
          \* and the TypeError is caught by the handler's try/catch
          /\ sent' = {}
          /\ UNCHANGED <<rooms, screenShareRequests>>
  /\ UNCHANGED userPlaylists
  /\ UNCHANGED <<conn, joined, currentUser, currentRoomCode, users, messages,
                 activeCalls, connectionMonitor, now, pingDue, healthDue,
                 cleanupDue, graceTimers, lastPong, hist, nextId>>

RejectScreenShare(s, requesterSocketId) ==
  /\ conn[s] = "open"
  /\ last' = Did("reject-screen-share", s, requesterSocketId)
  /\ IF MayDecide(s, requesterSocketId)
     THEN /\ screenShareRequests' =
               Del(screenShareRequests, requesterSocketId)
          /\ sent' = Emit(ToSocket(requesterSocketId),
                          "screen-share-rejected", "-", "-")
     ELSE /\ sent' = {}
          /\ UNCHANGED screenShareRequests
  /\ UNCHANGED userPlaylists
  /\ UNCHANGED <<conn, joined, currentUser, currentRoomCode, rooms, users,
                 messages, activeCalls, connectionMonitor, now, pingDue,
                 healthDue, cleanupDue, graceTimers, lastPong, hist, nextId>>

StopScreenShare(s) ==
  /\ conn[s] = "open"
  /\ last' = Did("stop-screen-share", s, Null)
  /\ IF currentRoomCode[s] # Null /\ Has(rooms, currentRoomCode[s])
        /\ rooms[currentRoomCode[s]].screenSharing # NoShare
     THEN /\ rooms' = [rooms EXCEPT
                         ![currentRoomCode[s]].screenSharing = NoShare]
          /\ sent' = Emit(InRoom(currentRoomCode[s]), "screen-share-stopped",
                          rooms[currentRoomCode[s]].screenSharing.userName,
                          "-")
     ELSE /\ sent' = {}
          /\ UNCHANGED rooms
  /\ UNCHANGED userPlaylists
  /\ UNCHANGED <<conn, joined, currentUser, currentRoomCode, users, messages,
                 activeCalls, screenShareRequests, connectionMonitor, now,
                 pingDue, healthDue, cleanupDue, graceTimers, lastPong, hist,
                 nextId>>

\* ------------------------------------------------ connection liveness
\* The per-connection pingInterval callback.
PingTimer(s) ==
  /\ Has(pingDue, s)
  /\ pingDue[s] = now
  /\ pingDue' = [pingDue EXCEPT ![s] = now + PING_PERIOD]
  /\ last' = Did("ping-timer", s, Null)
  /\ IF conn[s] = "open"
     THEN /\ sent' = Emit({s}, "ping", "-", "-")
          /\ connectionMonitor' =
               IF Has(connectionMonitor, s)
               THEN [connectionMonitor EXCEPT ![s].lastPing = now]
               ELSE connectionMonitor
     ELSE /\ sent' = {}
          /\ UNCHANGED connectionMonitor
  /\ UNCHANGED userPlaylists
  /\ UNCHANGED <<conn, joined, currentUser, currentRoomCode, rooms, users,
                 messages, activeCalls, screenShareRequests, now, healthDue,
                 cleanupDue, graceTimers, lastPong, hist, nextId>>

\* socket.on('pong')
Pong(s) ==
  /\ conn[s] = "open"
  /\ last' = Did("pong", s, Null)
  /\ connectionMonitor' =
       IF Has(connectionMonitor, s)
       THEN [connectionMonitor EXCEPT ![s].lastPing = now]
       ELSE connectionMonitor
  /\ lastPong' = Put(lastPong, s, now)
  /\ sent' = {}
  /\ UNCHANGED userPlaylists
  /\ UNCHANGED <<conn, joined, currentUser, currentRoomCode, rooms, users,
                 messages, activeCalls, screenShareRequests, now, pingDue,
                 healthDue, cleanupDue, graceTimers, hist, nextId>>

\* now - connection.lastPing > 40000 (NaN when lastPing is undefined)
IsStale(connection) ==
  connection.lastPing # Undefined /\ now - connection.lastPing > HEALTH_TIMEOUT

Stale == {s \in DOMAIN connectionMonitor : IsStale(connectionMonitor[s])}

\* Both records carry their connection time and a's is the later one.
ConnectedAfter(a, b) ==
  /\ a.connectedAt # Undefined
  /\ b.connectedAt # Undefined
  /\ a.connectedAt > b.connectedAt

\* The stale connections that are still connected, in an order the Map can
\* hold them in: connections are recorded as they connect.
StaleOrders ==
  LET open == {s \in Stale : conn[s] = "open"}
  IN {o \in [1..Cardinality(open) -> open] :
        /\ \A i, j \in DOMAIN o : i # j => o[i] # o[j]
        /\ \A i, j \in DOMAIN o :
             i < j => ~ConnectedAfter(connectionMonitor[o[i]],
                                      connectionMonitor[o[j]])}

\* The disconnect handlers of the connections in o, run one after another.
RECURSIVE UnwindAll(_, _)
UnwindAll(w, o) ==
  IF o = << >> THEN w ELSE UnwindAll(Unwind(w, Head(o)), Tail(o))

\* The health-check interval callback: socket.disconnect(true) runs the
\* disconnect handler of each stale connection inside the callback, and
\* the record of every stale entry is removed.
HealthCheck ==
  /\ healthDue = now
  /\ healthDue' = now + HEALTH_PERIOD
  /\ last' = Did("health-check", Null, Null)
  /\ \E o \in StaleOrders :
       LET w == UnwindAll(Here, o) IN
       Becomes([w EXCEPT !.connectionMonitor =
                  [s \in (DOMAIN w.connectionMonitor) \ Stale |->
                     w.connectionMonitor[s]]])
  /\ UNCHANGED userPlaylists
  /\ UNCHANGED <<currentUser, currentRoomCode, messages, now, cleanupDue,
                 lastPong, nextId>>

NoHealthTimerDue ==
  /\ healthDue > now
  /\ \A s \in DOMAIN pingDue : pingDue[s] > now

\* Time passes by one ping period; callbacks that are due run first.
TickHealth ==
  /\ now < MaxHealthTicks * PING_PERIOD
  /\ NoHealthTimerDue
  /\ now' = now + PING_PERIOD
  /\ last' = Did("tick", Null, Null)
  /\ sent' = {}
  /\ UNCHANGED userPlaylists
  /\ UNCHANGED <<conn, joined, currentUser, currentRoomCode, rooms, users,
                 messages, activeCalls, screenShareRequests, connectionMonitor,
                 pingDue, healthDue, cleanupDue, graceTimers, lastPong, hist,
                 nextId>>

\* ------------------------------------------------------ room retention
\* Variant: the re-check before deletion is inverted.
IsEmptyRoomInverted(code) == Has(rooms, code) /\ Len(rooms[code].users) > 0

\* rooms.get(currentRoomCode)?.users.size === 0
IsEmptyRoom(code) == Has(rooms, code) /\ Len(rooms[code].users) = 0

\* The setTimeout callback scheduled by disconnect for an emptied room.
GraceTimer(t) ==
  /\ t \in graceTimers
  /\ t.due = now
  /\ graceTimers' = graceTimers \ {t}
  /\ last' = Did("grace-timer", Null, t.code)
  /\ sent' = {}
  /\ IF IsEmptyRoom(t.code)
     THEN /\ rooms' = Del(rooms, t.code)
          /\ messages' = Del(messages, t.code)
          /\ userPlaylists' = Del(userPlaylists, t.code)
          /\ hist' = Del(hist, t.code)
     ELSE UNCHANGED <<rooms, messages, userPlaylists, hist>>
  /\ UNCHANGED <<conn, joined, currentUser, currentRoomCode, users,
                 activeCalls, screenShareRequests, connectionMonitor, now,
                 pingDue, healthDue, cleanupDue, lastPong, nextId>>

\* The periodic cleanup interval callback (src/unnamed/part_000).
\* Variant: a request is purged as soon as it is 5 minutes old.
OldRequestsFromTTL ==
  {s \in DOMAIN screenShareRequests :
     now - screenShareRequests[s].timestamp >= REQUEST_TTL}

OldRequests ==
  {s \in DOMAIN screenShareRequests :
     now - screenShareRequests[s].timestamp > REQUEST_TTL}

SweptRooms ==
  {c \in DOMAIN rooms :
     Len(rooms[c].users) = 0 /\ now - rooms[c].createdAt > ONE_HOUR}

CleanupSweep ==
  /\ cleanupDue = now
  /\ cleanupDue' = now + CLEANUP_PERIOD
  /\ last' = Did("cleanup", Null, OldRequests)
  /\ sent' = {}
  /\ screenShareRequests' =
       [s \in (DOMAIN screenShareRequests) \ OldRequests |->
          screenShareRequests[s]]
  /\ rooms' = [c \in (DOMAIN rooms) \ SweptRooms |-> rooms[c]]
  /\ messages' = [c \in (DOMAIN messages) \ SweptRooms |-> messages[c]]
  /\ hist' = [c \in (DOMAIN hist) \ SweptRooms |-> hist[c]]
  /\ UNCHANGED userPlaylists
  /\ UNCHANGED <<conn, joined, currentUser, currentRoomCode, users,
                 activeCalls, connectionMonitor, now, pingDue, healthDue,
                 graceTimers, lastPong, nextId>>

NoRoomTimerDue ==
  /\ cleanupDue > now
  /\ \A t \in graceTimers : t.due > now

\* Time passes by `step` ms; callbacks that are due run first.
TickRooms(step) ==
  /\ now < MaxRoomTicks * step
  /\ NoRoomTimerDue
  /\ now' = now + step
  /\ last' = Did("tick", Null, Null)
  /\ sent' = {}
  /\ UNCHANGED userPlaylists
  /\ UNCHANGED <<conn, joined, currentUser, currentRoomCode, rooms, users,
                 messages, activeCalls, screenShareRequests, connectionMonitor,
                 pingDue, healthDue, cleanupDue, graceTimers, lastPong, hist,
                 nextId>>

\* Time passes by one cleanup period.
TickSweep ==
  /\ now < MaxSweepTicks * CLEANUP_PERIOD
  /\ NoRoomTimerDue
  /\ now' = now + CLEANUP_PERIOD
  /\ last' = Did("tick", Null, Null)
  /\ sent' = {}
  /\ UNCHANGED userPlaylists
  /\ UNCHANGED <<conn, joined, currentUser, currentRoomCode, rooms, users,
                 messages, activeCalls, screenShareRequests, connectionMonitor,
                 pingDue, healthDue, cleanupDue, graceTimers, lastPong, hist,
                 nextId>>

\* ------------------------------------------------------------ chat runs
\* The connections that post in these runs; every connection edits and
\* deletes.
ChatPosters == {"s1", "s2"}

NextChat ==
  \/ \E s \in Sockets : Connect(s)
  \/ \E s \in Sockets : CreateRoom(s, NameOf(s), "AB12CD", NoPassword)
  \/ \E s \in Sockets : JoinRoom(s, "AB12CD", NameOf(s), NoPassword)
  \/ \E s \in ChatPosters : Message(s, "hi")
  \/ \E s \in Sockets, m \in MessageIds : EditMessage(s, m, "yo")
  \/ \E s \in Sockets, m \in MessageIds : DeleteMessage(s, m)

SpecChat == Init /\ [][NextChat]_vars

\* ---------------------------------------------------- screen-share runs
\* The code each connection gets from generateRoomCode in these runs.
CodeFor(s) == IF s = "s1" THEN "AB12CD" ELSE "XY34ZW"

NextScreen ==
  \/ \E s \in Sockets : Connect(s)
  \/ \E s \in {"s1", "s2"} : CreateRoom(s, NameOf(s), CodeFor(s), NoPassword)
  \/ \E s \in {"s2", "s3"} : JoinRoom(s, "AB12CD", NameOf(s), NoPassword)
  \/ \E s \in Sockets : RequestScreenShare(s)
  \/ \E s \in Sockets, r \in Sockets : ApproveScreenShare(s, r)
  \/ \E s \in Sockets, r \in Sockets : RejectScreenShare(s, r)
  \/ \E s \in Sockets : StopScreenShare(s)
  \/ \E s \in Sockets : Disconnect(s)

SpecScreen == Init /\ [][NextScreen]_vars

\* ----------------------------------------------- liveness-monitor runs
HealthSockets == {"s1", "s2"}

NextHealth ==
  \/ \E s \in HealthSockets : Connect(s)
  \/ \E s \in HealthSockets : PingTimer(s)
  \/ \E s \in HealthSockets : Pong(s)
  \/ HealthCheck
  \/ TickHealth
  \/ \E s \in HealthSockets : Disconnect(s)

SpecHealth == Init /\ [][NextHealth]_vars

\* ------------------------------------------------- room-retention runs
RoomSockets == {"s1", "s2"}

NextRooms ==
  \/ \E s \in RoomSockets : Connect(s)
  \/ \E s \in RoomSockets : CreateRoom(s, NameOf(s), "AB12CD", NoPassword)
  \/ \E s \in RoomSockets : JoinRoom(s, "AB12CD", NameOf(s), NoPassword)
  \/ \E s \in RoomSockets : Message(s, "hi")
  \/ \E s \in RoomSockets : Disconnect(s)
  \/ \E t \in graceTimers : GraceTimer(t)
  \/ CleanupSweep
  \/ TickRooms(GRACE_PERIOD \div 2)

SpecRooms == Init /\ [][NextRooms]_vars

\* ---------------------------------------------------------------- C2
\* C2: once the disconnect of a connection s has been handled, s holds no
\* state: it is in no membership set, has no presence-mirror record, no
\* call-index entry, is named in no remaining call record, holds no
\* screen-share grant, no pending screen-share request and no health record.
C2_DisconnectUnwindsAll ==
  last.op = "disconnect" =>
    LET s == last.s
    IN /\ \A c \in DOMAIN rooms :
            /\ ~HasId(rooms[c].users, s)
            /\ rooms[c].screenSharing.socketId # s
       /\ ~HasId(users, s)
       /\ ~Has(activeCalls, s)
       /\ \A x \in DOMAIN activeCalls :
            s \notin {activeCalls[x].callerSocketId,
                      activeCalls[x].targetSocketId}
       /\ ~Has(screenShareRequests, s)
       /\ ~Has(connectionMonitor, s)

\* ---------------------------------------------------------------- C3
\* C3: a connection that is still connected and has acknowledged no probe
\* for more than 40 s is disconnected and its health record removed by the
\* sweep that follows, so that 60 s after its last acknowledgment it is
\* neither connected nor recorded.
C3_UnackedIsReaped ==
  \A s \in DOMAIN lastPong :
    now - lastPong[s] > HEALTH_TIMEOUT + HEALTH_PERIOD
      => conn[s] # "open" /\ ~Has(connectionMonitor, s)

\* ---------------------------------------------------------------- C4
\* C4: a room that somebody rejoined while it was empty is deleted only when
\* it is empty and has been empty for a full grace period since the last
\* departure.
C4_RejoinedRoomSurvives ==
  [][\A c \in DOMAIN rooms :
       (c \notin DOMAIN rooms' /\ Has(hist, c) /\ hist[c].rejoined)
         => /\ Len(rooms[c].users) = 0
            /\ now - hist[c].emptiedAt >= GRACE_PERIOD]_vars

\* ---------------------------------------------------------------- C5
\* C5: a room emptied by a disconnect that stays empty for the grace period
\* is deleted from the registry when the period ends, and the step that
\* deletes a room deletes its chat log.
C5_EmptyRoomDeleted ==
  /\ [](\A c \in DOMAIN rooms :
          (Len(rooms[c].users) = 0 /\ Has(hist, c))
            => now - hist[c].emptiedAt <= GRACE_PERIOD)
  /\ [][\A c \in DOMAIN rooms :
          c \notin DOMAIN rooms' => c \notin DOMAIN messages']_vars

\* The grace timer has just deleted a room, a grace period after it was
\* emptied, and no chat log is left although messages had been posted.
C5_Witness ==
  /\ last.op = "grace-timer"
  /\ now >= GRACE_PERIOD
  /\ ~Has(rooms, last.arg)
  /\ ~Has(messages, last.arg)
  /\ nextId > 0
  /\ graceTimers = {}

\* ---------------------------------------------------------------- C8
\* C8 as stated: an edit-message or delete-message from a connection other
\* than the one that posted a message never changes that message's text,
\* edited flag or deleted flag.
C8_OnlyPosterChanges ==
  [][last'.op \in {"edit-message", "delete-message"} =>
       \A c \in DOMAIN messages : \A i \in DOMAIN messages[c] :
         messages[c][i].poster # last'.s =>
           /\ messages'[c][i].text = messages[c][i].text
           /\ messages'[c][i].edited = messages[c][i].edited
           /\ messages'[c][i].deleted = messages[c][i].deleted]_vars

\* C8 as amended: an edit-message or delete-message from a connection whose
\* display name differs from a message's author name never changes that
\* message's text, edited flag or deleted flag.
C8_OnlyAuthorNameChanges ==
  [][last'.op \in {"edit-message", "delete-message"} =>
       \A c \in DOMAIN messages : \A i \in DOMAIN messages[c] :
         messages[c][i].userName # currentUser[last'.s].userName =>
           /\ messages'[c][i].text = messages[c][i].text
           /\ messages'[c][i].edited = messages[c][i].edited
           /\ messages'[c][i].deleted = messages[c][i].deleted]_vars

\* A connection has just sent edit-message for a message of its own room
\* whose author has another name: nothing was broadcast and the message is
\* as posted.
C8_Witness ==
  /\ last.op = "edit-message"
  /\ sent = {}
  /\ InARoom(last.s)
  /\ \E i \in DOMAIN LogOf(currentRoomCode[last.s]) :
       LET msg == LogOf(currentRoomCode[last.s])[i]
       IN /\ msg.id = last.mid
          /\ msg.userName # currentUser[last.s].userName
          /\ ~msg.edited
          /\ msg.text = "hi"

\* ---------------------------------------------------------------- C9
\* C9: for a message present in the caller's room log, edit-message (resp.
\* delete-message) changes the message and broadcasts message-edited (resp.
\* message-deleted) if the caller's display name equals the author name;
\* otherwise the chat store is unchanged and nothing is broadcast.
C9_EditIffAuthorName ==
  [][last'.op \in {"edit-message", "delete-message"} =>
       LET s == last'.s
           code == currentRoomCode[s]
           i == FindIndex(LogOf(code), last'.mid)
       IN (InARoom(s) /\ i # 0) =>
            IF LogOf(code)[i].userName = currentUser[s].userName
            THEN IF last'.op = "edit-message"
                 THEN /\ messages'[code][i].edited
                      /\ \E e \in sent' :
                           /\ e.to = s
                           /\ e.ev = "message-edited"
                           /\ messages'[code][i].text = e.b
                 ELSE /\ messages'[code][i].deleted
                      /\ \E e \in sent' :
                           e.to = s /\ e.ev = "message-deleted"
            ELSE messages' = messages /\ sent' = {}]_vars

\* A delete-message from a connection that did not post the message but
\* carries its author's name has just flagged it deleted and been broadcast.
C9_Witness ==
  /\ last.op = "delete-message"
  /\ InARoom(last.s)
  /\ \E e \in sent : e.ev = "message-deleted" /\ e.to # last.s
  /\ \E i \in DOMAIN LogOf(currentRoomCode[last.s]) :
       LET msg == LogOf(currentRoomCode[last.s])[i]
       IN /\ msg.id = last.mid
          /\ msg.deleted
          /\ msg.poster # last.s

\* --------------------------------------------------------------- C10
\* C10: an approve-screen-share or reject-screen-share sent by a connection
\* that is not the recorded owner of the room in which the pending request
\* was made leaves the pending-request table and every room's grant
\* unchanged and notifies nobody.
C10_OnlyRoomOwnerDecides ==
  [][(last'.op \in {"approve-screen-share", "reject-screen-share"}
        /\ Has(screenShareRequests, last'.arg)) =>
       LET s == last'.s
           req == screenShareRequests[last'.arg]
       IN ~(Has(rooms, req.roomCode) /\ rooms[req.roomCode].owner = s) =>
            /\ screenShareRequests' = screenShareRequests
            /\ \A c \in DOMAIN rooms :
                 rooms'[c].screenSharing = rooms[c].screenSharing
            /\ sent' = {}]_vars

\* ------------------------------------------------------------------- C11
\* The rooms whose membership set holds the connection.
RoomsHolding(s) == {c \in DOMAIN rooms : HasId(rooms[c].users, s)}

\* C11: every connection is a member of at most one room, and the mirror
\* record of a member carries the code of the room it is a member of.
C11_OneRoomPerConnection ==
  \A s \in Sockets :
    /\ Cardinality(RoomsHolding(s)) <= 1
    /\ \A c \in RoomsHolding(s) :
         \E i \in DOMAIN users : users[i].id = s /\ users[i].roomCode = c

\* ------------------------------------------------------------ lobby runs
\* Rooms with and without a password, joined under either spelling of the
\* code and with a right, a wrong and no password.
LobbySockets == {"s1", "s2"}

JoinCodes == {"AB12CD", "ab12cd", "XY34ZW"}

JoinPasswords == Passwords \cup {NoPassword, "xx"}

\* The room of s1 is open, the room of s2 has a password.
PwFor(s) == IF s = "s1" THEN NoPassword ELSE "pw"

NextLobby ==
  \/ \E s \in LobbySockets : Connect(s)
  \/ \E s \in LobbySockets : CreateRoom(s, NameOf(s), CodeFor(s), PwFor(s))
  \/ \E s \in LobbySockets, c \in JoinCodes, p \in JoinPasswords :
       JoinRoom(s, c, NameOf(s), p)
  \/ Message("s1", "hi")

SpecLobby == Init /\ [][NextLobby]_vars

\* ------------------------------------------------------------------- C12
\* C12: every room is registered under its own code, and a create-room
\* step registers its room under a code no room was registered under and
\* leaves every room that existed as it was.
C12_CreateNeverOverwrites ==
  /\ [](\A c \in DOMAIN rooms : rooms[c].code = c)
  /\ [][last'.op = "create-room" =>
         /\ ~Has(rooms, last'.arg)
         /\ Has(rooms', last'.arg)
         /\ rooms'[last'.arg].owner = last'.s
         /\ \A c \in DOMAIN rooms : Has(rooms', c) /\ rooms'[c] = rooms[c]]_vars

\* A room has just been created while another one exists.
C12_Witness ==
  /\ last.op = "create-room"
  /\ Has(rooms, last.arg)
  /\ \E c \in DOMAIN rooms : c # last.arg /\ Len(rooms[c].users) > 0

\* ------------------------------------------------------------------- C13
\* The join-room that has just been handled named no room, or a room whose
\* password is set and is not the one supplied; read in the state before.
JoinMustFail(code, password) ==
  \/ ~Has(rooms, ToUpper(code))
  \/ /\ rooms[ToUpper(code)].password # Null
     /\ rooms[ToUpper(code)].password # password

\* C13: a join-room that names no existing room, or a wrong password,
\* sends error events to the sender only and changes nothing else.
C13_FailedJoinChangesNothing ==
  [][(last'.op = "join-room" /\ JoinMustFail(last'.arg, last'.pw)) =>
       /\ UNCHANGED <<conn, joined, currentUser, currentRoomCode, rooms, users,
                      messages, activeCalls, screenShareRequests,
                      connectionMonitor, graceTimers, nextId, userPlaylists>>
       /\ sent' # {}
       /\ \A e \in sent' : e.to = last'.s /\ e.ev = "error"]_vars

\* A member of one room has just been refused by a room with a password.
C13_Witness ==
  /\ last.op = "join-room"
  /\ Has(rooms, ToUpper(last.arg))
  /\ rooms[ToUpper(last.arg)].password = "pw"
  /\ last.pw = "xx"
  /\ ~HasId(rooms[ToUpper(last.arg)].users, last.s)
  /\ currentRoomCode[last.s] = "AB12CD"
  /\ sent = {Ev(last.s, "error", "Sifre yanlis", "-")}

\* --------------------------------------------------------- reaction runs
\* One room; ann posts, and ann and bob react and acknowledge.
ReactSockets == {"s1", "s2"}

NextReact ==
  \/ \E s \in ReactSockets : Connect(s)
  \/ CreateRoom("s1", NameOf("s1"), "AB12CD", NoPassword)
  \/ JoinRoom("s2", "AB12CD", NameOf("s2"), NoPassword)
  \/ Message("s1", "hi")
  \/ \E s \in ReactSockets, m \in MessageIds, r \in Reactions :
       MessageReaction(s, m, r)
  \/ \E s \in ReactSockets, m \in MessageIds : MessageSeen(s, m)

SpecReact == Init /\ [][NextReact]_vars

\* ------------------------------------------------------------------- C14
\* C14: a message-reaction on a message of the sender's log sets the
\* sender's symbol when the name had none, removes it when the name had the
\* same symbol (so that two identical reactions give the map back), replaces
\* it when the name had another symbol, and leaves every other name's
\* reaction as it was.
C14_ReactionToggles ==
  [][last'.op = "message-reaction" =>
       LET s == last'.s
           r == last'.pw
           code == currentRoomCode[s]
           i == FindIndex(LogOf(code), last'.mid)
           name == currentUser[s].userName
       IN (InARoom(s) /\ i # 0) =>
            LET old == LogOf(code)[i].reactions
                new == messages'[code][i].reactions
            IN /\ (~Has(old, name)) => (Has(new, name) /\ new[name] = r)
               /\ (Has(old, name) /\ old[name] = r) => ~Has(new, name)
               /\ (Has(old, name) /\ old[name] # r) =>
                    (Has(new, name) /\ new[name] = r)
               /\ \A n \in Names \ {name} :
                    /\ Has(new, n) <=> Has(old, n)
                    /\ Has(old, n) => new[n] = old[n]
               /\ (~Has(old, name) \/ old[name] = r) =>
                    ToggleReaction(new, name, r) = old]_vars

\* ann has just taken her reaction back from a message bob reacted to.
C14_Witness ==
  /\ last.op = "message-reaction"
  /\ last.s = "s1"
  /\ InARoom("s1")
  /\ \E i \in DOMAIN LogOf(currentRoomCode["s1"]) :
       LET msg == LogOf(currentRoomCode["s1"])[i]
       IN /\ msg.id = last.mid
          /\ ~Has(msg.reactions, "ann")
          /\ Has(msg.reactions, "bob")
  /\ \E e \in sent : e.ev = "message-reaction-updated" /\ e.to = "s2"

\* ------------------------------------------------------------------- C15
\* C15: no name is twice in a seen-list; a message-seen from a name that
\* is in the list already changes no log and emits nothing, and one from a
\* name that is not appends the name.
C15_SeenIdempotent ==
  /\ [](\A c \in DOMAIN messages : \A i \in DOMAIN messages[c] :
         \A j, k \in DOMAIN messages[c][i].seenBy :
           messages[c][i].seenBy[j] = messages[c][i].seenBy[k] => j = k)
  /\ [][last'.op = "message-seen" =>
         LET s == last'.s
             code == currentRoomCode[s]
             i == FindIndex(LogOf(code), last'.mid)
             name == currentUser[s].userName
         IN (InARoom(s) /\ i # 0) =>
              IF Includes(LogOf(code)[i].seenBy, name)
              THEN messages' = messages /\ sent' = {}
              ELSE /\ messages'[code][i].seenBy =
                        Append(LogOf(code)[i].seenBy, name)
                   /\ sent' # {}]_vars

\* bob, who had acknowledged ann's message, has just acknowledged it again.
C15_Witness ==
  /\ last.op = "message-seen"
  /\ last.s = "s2"
  /\ InARoom("s2")
  /\ sent = {}
  /\ \E i \in DOMAIN LogOf(currentRoomCode["s2"]) :
       LET msg == LogOf(currentRoomCode["s2"])[i]
       IN /\ msg.id = last.mid
          /\ msg.seenBy = <<"ann", "bob">>

\* ----------------------------------------------------- log-retention runs
\* One room and one log; ann posts more messages than the log keeps, bob
\* joins at any moment.
NextCap ==
  \/ \E s \in {"s1", "s2"} : Connect(s)
  \/ CreateRoom("s1", NameOf("s1"), "AB12CD", NoPassword)
  \/ JoinRoom("s2", "AB12CD", NameOf("s2"), NoPassword)
  \/ MessageBurst("s1", "hi")

SpecCap == Init /\ [][NextCap]_vars

\* ------------------------------------------------------------------- C16
\* The number of a log's entries after n posts.
Kept(n) == IF n <= MESSAGE_CAP THEN n ELSE MESSAGE_CAP

\* C16: in runs whose posts all go to one log, after n posts (identities
\* 1..n, in posting order) the log is the last min(n, 100) of them in that
\* order; no log is longer than 100; a post emits message events only.
C16_LogKeepsLatestHundred ==
  /\ [](\A c \in DOMAIN messages :
         /\ Len(messages[c]) <= MESSAGE_CAP
         /\ Len(messages[c]) = Kept(nextId)
         /\ \A j \in 1..Len(messages[c]) :
              messages[c][j].id = nextId - Kept(nextId) + j)
  /\ [][last'.op = "message" => \A e \in sent' : e.ev = "message"]_vars

\* The post before last pushed the first message out of a full log, the
\* last one the second.
C16_Witness ==
  /\ last.op = "message"
  /\ nextId = MESSAGE_CAP + 2
  /\ Len(LogOf("AB12CD")) = MESSAGE_CAP
  /\ LogOf("AB12CD")[1].id = 3
  /\ sent = Emit({"s1", "s2"}, "message", "ann", "hi")

\* ------------------------------------------------------------------- C17
\* C17: the room-joined event of a join carries the last 50 messages of
\* the log of the room joined, and that room's video, playback state and
\* screen-share grant, however the code was spelt.
C17_JoinedGetsRoomHistory ==
  [][last'.op = "join-room" =>
       \A e \in sent' :
         e.ev = "room-joined" =>
           LET room == rooms[ToUpper(last'.arg)]
           IN /\ e.to = last'.s
              /\ e.snap.previousMessages = LastN(LogOf(room.code), HISTORY_LEN)
              /\ e.snap.activeVideo = room.video
              /\ e.snap.playbackState = room.playbackState
              /\ e.snap.screenSharing = room.screenSharing]_vars

\* -------------------------------------------------------------- dial runs
\* One room, joined under either spelling of its code; calls are started
\* from inside and outside the room and connections come and go.
NextDial ==
  \/ \E s \in Sockets : Connect(s)
  \/ CreateRoom("s1", NameOf("s1"), "AB12CD", NoPassword)
  \/ \E s \in {"s2", "s3"}, c \in {"AB12CD", "ab12cd"} :
       JoinRoom(s, c, NameOf(s), NoPassword)
  \/ \E s \in Sockets, n \in Names : StartCall(s, n)
  \/ \E s \in Sockets : Disconnect(s)

SpecDial == Init /\ [][NextDial]_vars

\* ------------------------------------------------------------------- C18
\* The names of the participants of the room the connection is in: the
\* membership set of the room its current code resolves to.
NamesInRoomOf(s) ==
  IF currentRoomCode[s] # Null /\ Has(rooms, ToUpper(currentRoomCode[s]))
  THEN {rooms[ToUpper(currentRoomCode[s])].users[i].userName :
          i \in DOMAIN rooms[ToUpper(currentRoomCode[s])].users}
  ELSE {}

\* C18: a start-call naming nobody of the caller's room (or sent from no
\* room) emits one call-error to the caller, nothing to anyone else, and
\* leaves the call index as it was.
C18_NoTargetNoCall ==
  [][(last'.op = "start-call" /\ last'.arg \notin NamesInRoomOf(last'.s)) =>
       /\ activeCalls' = activeCalls
       /\ sent' = {Ev(last'.s, "call-error", "Kullanici bulunamadi", "-")}]_vars

\* bob, in no room, has just called ann, who is in a room.
C18_Witness ==
  /\ last.op = "start-call"
  /\ last.s = "s2"
  /\ last.arg = "ann"
  /\ currentRoomCode["s2"] = Null
  /\ \E i \in DOMAIN users : users[i].userName = "ann"
  /\ sent = {Ev("s2", "call-error", "Kullanici bulunamadi", "-")}
  /\ activeCalls = << >>

\* ------------------------------------------------------------------- C19
\* C19: when the connection named in a room's screen-share grant
\* disconnects, that room's grant is cleared and the members of the room
\* are sent screen-share-stopped with reason "disconnect".
C19_GrantClearedOnDisconnect ==
  [][last'.op = "disconnect" =>
       \A c \in DOMAIN rooms :
         rooms[c].screenSharing.socketId = last'.s =>
           /\ Has(rooms', c)
           /\ rooms'[c].screenSharing = NoShare
           /\ \A t \in Sockets :
                (c \in joined'[t]) =>
                  \E e \in sent' : /\ e.to = t
                                   /\ e.ev = "screen-share-stopped"
                                   /\ e.b = "disconnect"]_vars

\* ------------------------------------------------------------------- C20
\* C20: an end-call or reject-call from a connection without a call record
\* changes no entry of the call index and emits nothing, whatever
\* connection its payload names.
C20_NoRecordNoEffect ==
  [][(last'.op \in {"end-call", "reject-call"} /\ last'.cd = NoCall) =>
       /\ activeCalls' = activeCalls
       /\ sent' = {}]_vars

\* ------------------------------------------------------------- video runs
\* ann owns the room, bob is a guest; both join under either spelling of
\* the code, and both send every video event and share links.
VideoSockets == {"s1", "s2"}

ControlInputs == {[playing |-> TRUE], [currentTime |-> 5, playbackRate |-> 2]}

YoutubeUrls == {"https://www.youtube.com/watch?v=dQw4w9WgXcQ", "not a link"}

NextVideo ==
  \/ \E s \in VideoSockets : Connect(s)
  \/ CreateRoom("s1", NameOf("s1"), "AB12CD", NoPassword)
  \/ \E s \in VideoSockets, c \in {"AB12CD", "ab12cd"} :
       JoinRoom(s, c, NameOf(s), NoPassword)
  \/ \E s \in VideoSockets : UploadVideo(s, "clip", Null)
  \/ \E s \in VideoSockets, u \in YoutubeUrls : ShareYoutubeLink(s, u, Null)
  \/ \E s \in VideoSockets, d \in ControlInputs : VideoControl(s, d)
  \/ \E s \in VideoSockets, d \in ControlInputs : YoutubeControl(s, d)
  \/ \E s \in VideoSockets : DeleteVideo(s)

SpecVideo == Init /\ [][NextVideo]_vars

\* ------------------------------------------------------------------- C21
\* The connection is the owner of the room it is in.
OwnsItsRoom(s) ==
  /\ currentRoomCode[s] # Null
  /\ Has(rooms, ToUpper(currentRoomCode[s]))
  /\ rooms[ToUpper(currentRoomCode[s])].owner = s

OwnerOnlyOps == {"upload-video", "video-control", "youtube-control",
                 "delete-video"}

\* C21: an owner-only video event from a connection that does not own the
\* room it is in (or is in none) leaves every room's video descriptor and
\* playback state as they were and reaches nobody but, at most, the sender.
C21_GuestControlsNothing ==
  [][(last'.op \in OwnerOnlyOps /\ ~OwnsItsRoom(last'.s)) =>
       /\ rooms' = rooms
       /\ \A e \in sent' : e.to = last'.s]_vars

\* bob, a guest of a room that has a video playing, has just sent
\* delete-video.
C21_Witness ==
  /\ last.op = "delete-video"
  /\ last.s = "s2"
  /\ Has(rooms, "AB12CD")
  /\ HasId(rooms["AB12CD"].users, "s2")
  /\ rooms["AB12CD"].video.url = "clip"
  /\ rooms["AB12CD"].playbackState.playing
  /\ sent = {}

\* ------------------------------------------------------------------- C22
\* C22: an owner-only video event from a connection that does not own the
\* room it is in is answered with an error event, sent to that connection
\* and to nobody else.
C22_GuestGetsError ==
  [][(last'.op \in OwnerOnlyOps /\ ~OwnsItsRoom(last'.s)) =>
       /\ \E e \in sent' : e.to = last'.s /\ e.ev = "error"
       /\ \A e \in sent' : e.to = last'.s]_vars

\* ---------------------------------------------------------- playlist runs
\* ann and bob in one room upload tracks, ask each other to delete and
\* confirm.
PlaylistSockets == {"s1", "s2"}

NextPlaylist ==
  \/ \E s \in PlaylistSockets : Connect(s)
  \/ CreateRoom("s1", NameOf("s1"), "AB12CD", NoPassword)
  \/ JoinRoom("s2", "AB12CD", NameOf("s2"), NoPassword)
  \/ \E s \in PlaylistSockets : UploadPlaylistMusic(s)
  \/ \E s \in PlaylistSockets, n \in Names : RequestDeleteMusic(s, n)
  \/ \E s \in PlaylistSockets, n \in Names : ConfirmDeleteMusic(s, n)

SpecPlaylist == Init /\ [][NextPlaylist]_vars

\* ------------------------------------------------------------------- C23
\* C23: every playlist-updated event just sent carries round(100 P / M),
\* P the number of names whose list in the sender's room holds a track, M
\* the number of members of that room.
C23_ProgressCountsNonEmptyLists ==
  (last.op \in {"upload-playlist-music", "confirm-delete-music"}) =>
    \A e \in sent :
      e.ev = "playlist-updated" =>
        e.num = Progress(NonEmptyCount(PlaylistOf(currentRoomCode[last.s])),
                         Len(rooms[currentRoomCode[last.s]].users))

\* ------------------------------------------------------------------- C24
\* C24: whatever deletes a room (a grace timer or the periodic sweep), the
\* room is empty and its membership last dropped to zero at least a grace
\* period before.
C24_NoEarlyDeletion ==
  [][\A c \in DOMAIN rooms :
       c \notin DOMAIN rooms' =>
         /\ Len(rooms[c].users) = 0
         /\ Has(hist, c)
         /\ now - hist[c].emptiedAt >= GRACE_PERIOD]_vars

\* ------------------------------------------------------ periodic-sweep runs
\* One room over more than an hour; members come and go between sweeps.
SweepSockets == {"s1", "s2"}

NextSweep ==
  \/ \E s \in SweepSockets : Connect(s)
  \/ CreateRoom("s1", NameOf("s1"), "AB12CD", NoPassword)
  \/ JoinRoom("s2", "AB12CD", NameOf("s2"), NoPassword)
  \/ \E s \in SweepSockets : Disconnect(s)
  \/ \E t \in graceTimers : GraceTimer(t)
  \/ CleanupSweep
  \/ TickSweep

SpecSweep == Init /\ [][NextSweep]_vars

\* ------------------------------------------------------------------- C25
\* C25: a room the periodic sweep deletes has been without members for
\* more than an hour.
C25_SweepNeedsHourEmpty ==
  [][last'.op = "cleanup" =>
       \A c \in DOMAIN rooms :
         c \notin DOMAIN rooms' =>
           /\ Len(rooms[c].users) = 0
           /\ Has(hist, c)
           /\ now - hist[c].emptiedAt > ONE_HOUR]_vars

\* ------------------------------------------------------------ answer runs
\* One room; calls are started, answered, rejected and ended.
NextAnswer ==
  \/ \E s \in Sockets : Connect(s)
  \/ CreateRoom("s1", NameOf("s1"), "AB12CD", NoPassword)
  \/ \E s \in {"s2", "s3"} : JoinRoom(s, "AB12CD", NameOf(s), NoPassword)
  \/ \E s \in Sockets, n \in Names : StartCall(s, n)
  \/ \E s \in Sockets, n \in Names : WebrtcAnswer(s, n)
  \/ \E s \in Sockets : RejectCall(s, Null)
  \/ \E s \in Sockets : EndCall(s, Null)

SpecAnswer == Init /\ [][NextAnswer]_vars

\* ------------------------------------------------------------------- C26
\* C26: once the callee's webrtc-answer has been relayed to the caller, the
\* record stored under both participants has status "active".
C26_AnsweredCallIsActive ==
  [][/\ last'.op = "webrtc-answer"
     /\ Has(activeCalls, last'.s)
     /\ activeCalls[last'.s].targetSocketId = last'.s
     /\ \E e \in sent' : /\ e.ev = "webrtc-answer"
                          /\ e.to = activeCalls[last'.s].callerSocketId
     => LET cd == activeCalls[last'.s] IN
        /\ Has(activeCalls', cd.callerSocketId)
        /\ Has(activeCalls', cd.targetSocketId)
        /\ activeCalls'[cd.callerSocketId].status = "active"
        /\ activeCalls'[cd.targetSocketId].status = "active"]_vars

\* ------------------------------------------------------------------- C27
\* C27: a room that holds a screen-share grant has the grantee among its
\* current members.
C27_GranteeIsMember ==
  \A c \in DOMAIN rooms :
    rooms[c].screenSharing # NoShare =>
      \E i \in DOMAIN rooms[c].users :
        rooms[c].users[i].id = rooms[c].screenSharing.socketId

\* ----------------------------------------------------- pending-request runs
\* One room; its members ask to share, the owner decides or does not, and the
\* sweep runs every cleanup period while time passes in 5-minute steps.
PendingSockets == {"s1", "s2"}

NextPending ==
  \/ \E s \in PendingSockets : Connect(s)
  \/ CreateRoom("s1", NameOf("s1"), "AB12CD", NoPassword)
  \/ JoinRoom("s2", "AB12CD", NameOf("s2"), NoPassword)
  \/ \E s \in PendingSockets : RequestScreenShare(s)
  \/ \E r \in PendingSockets : ApproveScreenShare("s1", r)
  \/ \E r \in PendingSockets : RejectScreenShare("s1", r)
  \/ CleanupSweep
  \/ TickRooms(REQUEST_TTL)

SpecPending == Init /\ [][NextPending]_vars

\* ------------------------------------------------------------------- C28
\* C28: a run of the periodic sweep removes exactly the pending requests
\* that are older than 5 minutes, leaves every other request as it was, and
\* sends no event to anyone.
C28_SweepPurgesStaleRequests ==
  [][last'.op = "cleanup" =>
       /\ sent' = {}
       /\ \A s \in DOMAIN screenShareRequests :
            IF now - screenShareRequests[s].timestamp > REQUEST_TTL
            THEN ~Has(screenShareRequests', s)
            ELSE /\ Has(screenShareRequests', s)
                 /\ screenShareRequests'[s] = screenShareRequests[s]
       /\ DOMAIN screenShareRequests' \subseteq DOMAIN screenShareRequests]_vars

\* The sweep has just purged a request and kept one that is exactly
\* 5 minutes old.
C28_Witness ==
  /\ last.op = "cleanup"
  /\ last.arg # {}
  /\ \E s \in DOMAIN screenShareRequests :
       now - screenShareRequests[s].timestamp = REQUEST_TTL

\* ------------------------------------------------------ missing-identity runs
\* Two rooms; only the first one gets messages, and both owners edit,
\* delete, react to and mark as seen identities that may or may not be in
\* their own room's log.
MissingSockets == {"s1", "s2"}

NextMissing ==
  \/ \E s \in MissingSockets : Connect(s)
  \/ \E s \in MissingSockets :
       CreateRoom(s, NameOf(s), CodeFor(s), NoPassword)
  \/ Message("s1", "hi")
  \/ \E s \in MissingSockets, m \in MessageIds : EditMessage(s, m, "yo")
  \/ \E s \in MissingSockets, m \in MessageIds : DeleteMessage(s, m)
  \/ \E s \in MissingSockets, m \in MessageIds :
       MessageReaction(s, m, "heart")
  \/ \E s \in MissingSockets, m \in MessageIds : MessageSeen(s, m)

SpecMissing == Init /\ [][NextMissing]_vars

\* ------------------------------------------------------------------- C29
LookupOps ==
  {"edit-message", "delete-message", "message-reaction", "message-seen"}

\* The identity is not in the log of the room the connection is in.
NotInLog(s, messageId) ==
  \A i \in DOMAIN LogOf(currentRoomCode[s]) :
    LogOf(currentRoomCode[s])[i].id # messageId

\* C29: an edit, delete, reaction or seen mark that names an identity not in
\* the caller's room log changes no state and sends no event.
C29_MissingIdentityIsSilent ==
  [][(last'.op \in LookupOps /\ NotInLog(last'.s, last'.mid)) =>
       /\ sent' = {}
       /\ UNCHANGED <<conn, joined, currentUser, currentRoomCode, rooms,
                      users, messages, activeCalls, screenShareRequests,
                      connectionMonitor, now, pingDue, healthDue, cleanupDue,
                      graceTimers, lastPong, hist, nextId,
                      userPlaylists>>]_vars

\* A member whose room log holds messages has just named an identity that
\* is not among them.
C29_Witness ==
  /\ last.op \in LookupOps
  /\ InARoom(last.s)
  /\ LogOf(currentRoomCode[last.s]) # << >>
  /\ NotInLog(last.s, last.mid)

\* ------------------------------------------------------------------- C30
\* The earliest-registered participant of the room that carries the name.
FirstMatch(targetUserName, code) ==
  LET m == Matches(targetUserName, code)
  IN users[CHOOSE i \in m : \A j \in m : i <= j].id

\* C30: when participants of the caller's room carry the target name,
\* start-call gives the call record and incoming-call to the first of them
\* in the presence mirror, and to no one else.
C30_FirstMatchIsCalled ==
  [][(last'.op = "start-call"
      /\ Matches(last'.arg, currentRoomCode[last'.s]) # {}) =>
       LET first == FirstMatch(last'.arg, currentRoomCode[last'.s]) IN
       /\ Has(activeCalls', last'.s)
       /\ activeCalls'[last'.s].targetSocketId = first
       /\ Has(activeCalls', first)
       /\ \A e \in sent' : e.ev = "incoming-call" => e.to = first]_vars

\* ------------------------------------------------------------------- C31
\* C31: a participant of a stored call keeps being reported in call: when a
\* connection that has a call record of its own acts, every membership list
\* published by that step reports isInCall = TRUE for each listed connection
\* that had a call record before the step, unless the actor is that
\* connection or the other party of that connection's record.
C31_InCallUntilTerminated ==
  [][last'.cd # NoCall =>
       \A e \in sent' :
         e.ev = "user-list-update" =>
           \A i \in DOMAIN e.ul :
             (/\ Has(activeCalls, e.ul[i].id)
              /\ e.ul[i].id # last'.s
              /\ OtherParty(activeCalls[e.ul[i].id], e.ul[i].id) # last'.s)
               => e.ul[i].isInCall]_vars

\* ------------------------------------------------------------------- C32
\* C32: a reject-call or end-call from a connection that has a call record
\* sends call-rejected / call-ended to the other party of that record and
\* to no other connection, whatever identity the payload names.
C32_TerminationGoesToCounterpart ==
  [][(last'.op \in {"reject-call", "end-call"} /\ last'.cd # NoCall) =>
       \A e \in sent' :
         e.ev \in {"call-rejected", "call-ended"} =>
           e.to = OtherParty(last'.cd, last'.s)]_vars

\* ------------------------------------------------------------------- C33
\* The connections that are members of the room.
MembersOf(room) == {room.users[i].id : i \in DOMAIN room.users}

\* C33: a video-control event from the owner of an existing room overwrites
\* the fields of the room's playback state that the payload carries, keeps
\* the others, and the resulting state is delivered as video-control to
\* every member of the room, the owner included.
C33_ControlMergesAndReachesAll ==
  [][(/\ last'.op = "video-control"
      /\ InARoom(last'.s)
      /\ currentUser[last'.s].isOwner
      /\ Has(rooms, currentRoomCode[last'.s])) =>
       LET code == currentRoomCode[last'.s]
           old == rooms[code].playbackState
           new == rooms'[code].playbackState
       IN /\ \A k \in DOMAIN old :
               new[k] = IF k \in DOMAIN last'.arg THEN last'.arg[k]
                        ELSE old[k]
          /\ \A m \in MembersOf(rooms[code]) :
               \E e \in sent' : /\ e.to = m
                                /\ e.ev = "video-control"
                                /\ e.snap.playbackState = new]_vars

\* -------------------------------------------------------------- edit runs
\* ann owns the room and posts, edits and deletes; bob joins, reacts and
\* marks messages as seen.
NextEdit ==
  \/ \E s \in {"s1", "s2"} : Connect(s)
  \/ CreateRoom("s1", NameOf("s1"), "AB12CD", NoPassword)
  \/ JoinRoom("s2", "AB12CD", NameOf("s2"), NoPassword)
  \/ Message("s1", "hi")
  \/ \E m \in MessageIds : EditMessage("s1", m, "yo")
  \/ \E m \in MessageIds : DeleteMessage("s1", m)
  \/ \E m \in MessageIds : MessageReaction("s2", m, "heart")
  \/ \E m \in MessageIds : MessageSeen("s2", m)

SpecEdit == Init /\ [][NextEdit]_vars

\* ------------------------------------------------------------------- C34
\* The fields of a message an edit may write.
EditableFields == {"text", "edited"}

\* C34: an edit-message by the author of a message in the caller's room log
\* changes the text and the edited flag of that message only: its other
\* fields, its position, every other message and every other log stay as
\* they were.
C34_EditTouchesTextOnly ==
  [][(/\ last'.op = "edit-message"
      /\ InARoom(last'.s)
      /\ \E i \in DOMAIN LogOf(currentRoomCode[last'.s]) :
           /\ LogOf(currentRoomCode[last'.s])[i].id = last'.mid
           /\ LogOf(currentRoomCode[last'.s])[i].userName
                = currentUser[last'.s].userName) =>
       LET code == currentRoomCode[last'.s]
           log == messages[code]
           new == messages'[code]
       IN /\ DOMAIN messages' = DOMAIN messages
          /\ \A c \in DOMAIN messages : c # code => messages'[c] = messages[c]
          /\ Len(new) = Len(log)
          /\ \A j \in DOMAIN log :
               IF log[j].id = last'.mid
               THEN /\ new[j].edited
                    /\ \A f \in (DOMAIN log[j]) \ EditableFields :
                         new[j][f] = log[j][f]
               ELSE new[j] = log[j]]_vars

\* ann has just edited the first of two messages, which carries bob's
\* reaction and bob's seen mark.
C34_Witness ==
  /\ last.op = "edit-message"
  /\ last.mid = 1
  /\ Len(LogOf("AB12CD")) = 2
  /\ LogOf("AB12CD")[1].text = "yo"
  /\ LogOf("AB12CD")[1].edited
  /\ LogOf("AB12CD")[1].reactions # << >>
  /\ Len(LogOf("AB12CD")[1].seenBy) = 2

\* ------------------------------------------------------------------- C35
\* The owner recorded for the room is no longer one of its members.
OwnerGone(c) == rooms[c].owner \notin MembersOf(rooms[c])

\* The pending requests made in room c.
RequestsOf(c) ==
  {r \in DOMAIN screenShareRequests : screenShareRequests[r].roomCode = c}

\* C35: a room's owner identity never changes, only the creator's member
\* entry carries the owner flag, and once the owner has left no screen-share
\* decision takes effect in the room: its pending requests stay pending,
\* their requesters get no verdict, and its grant is not set.
C35_OwnershipIsNeverReassigned ==
  [][\A c \in DOMAIN rooms :
       /\ Has(rooms', c) =>
            /\ rooms'[c].owner = rooms[c].owner
            /\ \A i \in DOMAIN rooms'[c].users :
                 rooms'[c].users[i].isOwner =>
                   rooms'[c].users[i].id = rooms'[c].owner
       /\ (/\ OwnerGone(c)
           /\ last'.op \in {"approve-screen-share", "reject-screen-share"}) =>
            /\ rooms'[c].screenSharing = rooms[c].screenSharing
            /\ \A r \in RequestsOf(c) :
                 /\ Has(screenShareRequests', r)
                 /\ \A e \in sent' :
                      e.ev \in {"screen-share-approved",
                                "screen-share-rejected"} => e.to # r]_vars

\* ------------------------------------------------------------------- C36
\* C36: a confirm-delete-music naming requester R empties the confirmer's
\* list of tracks only if a music-delete-request from R was delivered to the
\* confirmer before, and it changes no other list.
C36_ClearNeedsRequest ==
  [][last'.op = "confirm-delete-music" =>
       LET code == currentRoomCode[last'.s]
           name == currentUser[last'.s].userName
       IN /\ (Tracks(PlaylistOf(code), name) > 0
              /\ Has(userPlaylists', code)
              /\ Tracks(userPlaylists'[code], name) = 0) =>
               [from |-> last'.arg, to |-> last'.s] \in last.asked
          /\ \A c \in DOMAIN userPlaylists : \A n \in DOMAIN userPlaylists[c] :
               (c # code \/ n # name) =>
                 /\ Has(userPlaylists', c)
                 /\ Tracks(userPlaylists'[c], n)
                      = Tracks(userPlaylists[c], n)]_vars

\* ------------------------------------------------------------------- C37
\* C37: no event raises a fault that leaves its handler.
C37_NoFaultEscapes == ~last.threw

\* ------------------------------------------------------------------- C38
\* C38: the room code of every presence-mirror record is the registry key of
\* a room that has the record's connection among its members.
C38_MirrorNamesItsRoom ==
  \A i \in DOMAIN users :
    /\ Has(rooms, users[i].roomCode)
    /\ HasId(rooms[users[i].roomCode].users, users[i].id)

\* ------------------------------------------------------------- relay runs
\* Two rooms; answers and candidates are addressed by name and, as in the
\* other revision, by connection identity.
NextRelay ==
  \/ \E s \in Sockets : Connect(s)
  \/ \E s \in {"s1", "s2"} : CreateRoom(s, NameOf(s), CodeFor(s), NoPassword)
  \/ JoinRoom("s3", "AB12CD", NameOf("s3"), NoPassword)
  \/ \E s \in Sockets, n \in Names : WebrtcAnswer(s, n)
  \/ \E s \in Sockets, t \in Sockets \cup {Null} : WebrtcAnswerById(s, t)
  \/ \E s \in Sockets, n \in Names : WebrtcIceCandidate(s, n)
  \/ \E s \in Sockets, t \in Sockets \cup {Null} :
       WebrtcIceCandidateById(s, t)

SpecRelay == Init /\ [][NextRelay]_vars

\* ------------------------------------------------------------------- C39
\* Both connections are members of one room.
ShareARoom(s, t) ==
  \E c \in DOMAIN rooms : HasId(rooms[c].users, s) /\ HasId(rooms[c].users, t)

\* C39: an answer or a candidate is delivered only to a connection that is
\* a member of a room the sender is a member of.
C39_SignalingStaysInRoom ==
  [][last'.op \in {"webrtc-answer", "webrtc-ice-candidate"} =>
       \A e \in sent' : ShareARoom(last'.s, e.to)]_vars

\* ------------------------------------------------------------------- C40
\* C40: the caller and the callee of every call record are two distinct
\* connections.
C40_NoSelfCall ==
  \A x \in DOMAIN activeCalls :
    activeCalls[x].callerSocketId # activeCalls[x].targetSocketId

====
